---- MODULE Spec2Model ----
(***************************************************************************)
(* Model of the musician-matching service (ml-service): the optimized      *)
(* profile matcher, its query cache, and the HTTP handlers that use it.    *)
(*                                                                         *)
(* Representation of Python values:                                        *)
(*   dict          a function whose DOMAIN is the set of its keys          *)
(*   list of str   a sequence of strings                                   *)
(*   str           a string ("" is the empty, falsy string)                *)
(*   float score   an integer number of hundredths (0.75 is 75)            *)
(*   overall score an integer number of 1/10000 (0.7125 is 7125)           *)
(***************************************************************************)
EXTENDS Integers, Sequences, FiniteSets, TLC

(***************************************************************************)
(* Strings                                                                 *)
(***************************************************************************)
LowerChar(c) ==
    CASE c = "A" -> "a" [] c = "B" -> "b" [] c = "C" -> "c" [] c = "D" -> "d"
      [] c = "E" -> "e" [] c = "F" -> "f" [] c = "G" -> "g" [] c = "H" -> "h"
      [] c = "I" -> "i" [] c = "J" -> "j" [] c = "K" -> "k" [] c = "L" -> "l"
      [] c = "M" -> "m" [] c = "N" -> "n" [] c = "O" -> "o" [] c = "P" -> "p"
      [] c = "Q" -> "q" [] c = "R" -> "r" [] c = "S" -> "s" [] c = "T" -> "t"
      [] c = "U" -> "u" [] c = "V" -> "v" [] c = "W" -> "w" [] c = "X" -> "x"
      [] c = "Y" -> "y" [] c = "Z" -> "z" [] OTHER -> c

RECURSIVE Lower(_)
Lower(s) ==
    IF Len(s) = 0 THEN ""
    ELSE LowerChar(SubSeq(s, 1, 1)) \o Lower(SubSeq(s, 2, Len(s)))

\* Python's  t in s  for two strings
Contains(s, t) ==
    \E i \in 1..(Len(s) - Len(t) + 1) : SubSeq(s, i, i + Len(t) - 1) = t

(***************************************************************************)
(* Lists and dicts                                                         *)
(***************************************************************************)
Range(seq) == {seq[i] : i \in 1..Len(seq)}

\* Python's  d.get(k, default)
Get(d, k, default) == IF k \in DOMAIN d THEN d[k] ELSE default

\* [f(x) for x in seq]
LowerAll(seq) == [i \in 1..Len(seq) |-> Lower(seq[i])]

\* {x.lower() for x in seq}
LowerSet(seq) == {Lower(seq[i]) : i \in 1..Len(seq)}

\* a slice that cuts nothing
SliceTo_Uncut(seq, n) == seq

\* Python's  seq[:n]  for an integer n
SliceTo(seq, n) ==
    IF n >= 0
    THEN SubSeq(seq, 1, IF n < Len(seq) THEN n ELSE Len(seq))
    ELSE SubSeq(seq, 1, IF Len(seq) + n > 0 THEN Len(seq) + n ELSE 0)

Min2(a, b) == IF a <= b THEN a ELSE b

(***************************************************************************)
(* Instrument groups                                                       *)
(***************************************************************************)
\* the dict of _define_instrument_groups, in insertion order
instrument_groups ==
    << [group |-> "rhythm_section", instruments |-> {"bass", "drums"}],
       [group |-> "harmony", instruments |-> {"piano", "guitar", "organ", "synthesizer", "accordion"}],
       [group |-> "melody", instruments |-> {"vocals", "violin", "saxophone", "trumpet", "flute", "cello"}],
       [group |-> "world", instruments |-> {"oud", "sitar", "kora", "erhu", "shamisen", "tabla", "djembe"}],
       [group |-> "folk", instruments |-> {"fiddle", "mandolin", "banjo", "ukulele", "harmonica"}],
       [group |-> "percussion", instruments |-> {"drums", "percussion", "djembe", "tabla", "talking drum"}],
       [group |-> "strings", instruments |-> {"guitar", "bass", "violin", "cello", "mandolin", "sitar", "kora"}],
       [group |-> "winds", instruments |-> {"saxophone", "trumpet", "flute", "clarinet", "oboe"}],
       [group |-> "keyboards", instruments |-> {"piano", "organ", "synthesizer", "accordion"}] >>

\* the groups that contain one of the (lowercased) instruments of a list
GroupsOf(insts) ==
    {instrument_groups[g].group : g \in
        {g \in 1..Len(instrument_groups) :
            \E i \in 1..Len(insts) : Lower(insts[i]) \in instrument_groups[g].instruments}}

\* list.append(x) unless x is already in the list
AppendNew(seq, x) == IF x \in Range(seq) THEN seq ELSE Append(seq, x)

\* the inner loop of _precompute_profile_features for one instrument
RECURSIVE AddGroups(_, _, _)
AddGroups(acc, inst, g) ==
    IF g > Len(instrument_groups) THEN acc
    ELSE AddGroups(IF Lower(inst) \in instrument_groups[g].instruments
                   THEN AppendNew(acc, instrument_groups[g].group)
                   ELSE acc,
                   inst, g + 1)

\* the outer loop: profile['_instrument_groups']
RECURSIVE GroupList(_, _, _)
GroupList(acc, insts, i) ==
    IF i > Len(insts) THEN acc
    ELSE GroupList(AddGroups(acc, insts[i], 1), insts, i + 1)

(***************************************************************************)
(* NYCLocationIntelligence: static tables                                  *)
(***************************************************************************)
\* the dict of _build_comprehensive_neighborhoods, in insertion order
neighborhoods ==
    << [key |-> "lower_east_side", name |-> "Lower East Side", borough |-> "Manhattan", zone |-> "lower_manhattan",
        aliases |-> << "les", "lower east side", "loisaida" >>],
       [key |-> "east_village", name |-> "East Village", borough |-> "Manhattan", zone |-> "lower_manhattan",
        aliases |-> << "east village", "ev", "alphabet city" >>],
       [key |-> "west_village", name |-> "West Village", borough |-> "Manhattan", zone |-> "lower_manhattan",
        aliases |-> << "west village", "greenwich village", "the village" >>],
       [key |-> "soho", name |-> "SoHo", borough |-> "Manhattan", zone |-> "lower_manhattan",
        aliases |-> << "soho", "south of houston" >>],
       [key |-> "tribeca", name |-> "TriBeCa", borough |-> "Manhattan", zone |-> "lower_manhattan",
        aliases |-> << "tribeca", "triangle below canal" >>],
       [key |-> "nolita", name |-> "NoLita", borough |-> "Manhattan", zone |-> "lower_manhattan",
        aliases |-> << "nolita", "north of little italy" >>],
       [key |-> "chinatown", name |-> "Chinatown", borough |-> "Manhattan", zone |-> "lower_manhattan",
        aliases |-> << "chinatown" >>],
       [key |-> "little_italy", name |-> "Little Italy", borough |-> "Manhattan", zone |-> "lower_manhattan",
        aliases |-> << "little italy" >>],
       [key |-> "financial_district", name |-> "Financial District", borough |-> "Manhattan", zone |-> "lower_manhattan",
        aliases |-> << "financial district", "fidi", "wall street" >>],
       [key |-> "midtown", name |-> "Midtown", borough |-> "Manhattan", zone |-> "midtown_manhattan",
        aliases |-> << "midtown", "midtown manhattan", "times square area" >>],
       [key |-> "times_square", name |-> "Times Square", borough |-> "Manhattan", zone |-> "midtown_manhattan",
        aliases |-> << "times square", "theater district", "broadway" >>],
       [key |-> "hells_kitchen", name |-> "Hell's Kitchen", borough |-> "Manhattan", zone |-> "midtown_manhattan",
        aliases |-> << "hells kitchen", "hell's kitchen", "clinton" >>],
       [key |-> "murray_hill", name |-> "Murray Hill", borough |-> "Manhattan", zone |-> "midtown_manhattan",
        aliases |-> << "murray hill" >>],
       [key |-> "gramercy", name |-> "Gramercy", borough |-> "Manhattan", zone |-> "midtown_manhattan",
        aliases |-> << "gramercy", "gramercy park" >>],
       [key |-> "flatiron", name |-> "Flatiron", borough |-> "Manhattan", zone |-> "midtown_manhattan",
        aliases |-> << "flatiron", "flatiron district" >>],
       [key |-> "upper_east_side", name |-> "Upper East Side", borough |-> "Manhattan", zone |-> "upper_manhattan",
        aliases |-> << "upper east side", "ues", "carnegie hill" >>],
       [key |-> "upper_west_side", name |-> "Upper West Side", borough |-> "Manhattan", zone |-> "upper_manhattan",
        aliases |-> << "upper west side", "uws", "lincoln square" >>],
       [key |-> "harlem", name |-> "Harlem", borough |-> "Manhattan", zone |-> "upper_manhattan",
        aliases |-> << "harlem", "central harlem", "east harlem" >>],
       [key |-> "washington_heights", name |-> "Washington Heights", borough |-> "Manhattan", zone |-> "upper_manhattan",
        aliases |-> << "washington heights", "wa heights" >>],
       [key |-> "inwood", name |-> "Inwood", borough |-> "Manhattan", zone |-> "upper_manhattan",
        aliases |-> << "inwood" >>],
       [key |-> "williamsburg", name |-> "Williamsburg", borough |-> "Brooklyn", zone |-> "north_brooklyn",
        aliases |-> << "williamsburg", "wburg", "billyburg" >>],
       [key |-> "greenpoint", name |-> "Greenpoint", borough |-> "Brooklyn", zone |-> "north_brooklyn",
        aliases |-> << "greenpoint", "green point" >>],
       [key |-> "dumbo", name |-> "DUMBO", borough |-> "Brooklyn", zone |-> "north_brooklyn",
        aliases |-> << "dumbo", "down under manhattan bridge" >>],
       [key |-> "brooklyn_heights", name |-> "Brooklyn Heights", borough |-> "Brooklyn", zone |-> "north_brooklyn",
        aliases |-> << "brooklyn heights", "bk heights" >>],
       [key |-> "park_slope", name |-> "Park Slope", borough |-> "Brooklyn", zone |-> "north_brooklyn",
        aliases |-> << "park slope" >>],
       [key |-> "fort_greene", name |-> "Fort Greene", borough |-> "Brooklyn", zone |-> "north_brooklyn",
        aliases |-> << "fort greene" >>],
       [key |-> "prospect_heights", name |-> "Prospect Heights", borough |-> "Brooklyn", zone |-> "central_brooklyn",
        aliases |-> << "prospect heights" >>],
       [key |-> "crown_heights", name |-> "Crown Heights", borough |-> "Brooklyn", zone |-> "central_brooklyn",
        aliases |-> << "crown heights" >>],
       [key |-> "bed_stuy", name |-> "Bedford-Stuyvesant", borough |-> "Brooklyn", zone |-> "central_brooklyn",
        aliases |-> << "bed stuy", "bedstuy", "bedford stuyvesant", "bedford-stuyvesant" >>],
       [key |-> "clinton_hill", name |-> "Clinton Hill", borough |-> "Brooklyn", zone |-> "central_brooklyn",
        aliases |-> << "clinton hill" >>],
       [key |-> "carroll_gardens", name |-> "Carroll Gardens", borough |-> "Brooklyn", zone |-> "central_brooklyn",
        aliases |-> << "carroll gardens" >>],
       [key |-> "red_hook", name |-> "Red Hook", borough |-> "Brooklyn", zone |-> "south_brooklyn",
        aliases |-> << "red hook" >>],
       [key |-> "sunset_park", name |-> "Sunset Park", borough |-> "Brooklyn", zone |-> "south_brooklyn",
        aliases |-> << "sunset park" >>],
       [key |-> "bay_ridge", name |-> "Bay Ridge", borough |-> "Brooklyn", zone |-> "south_brooklyn",
        aliases |-> << "bay ridge" >>],
       [key |-> "bensonhurst", name |-> "Bensonhurst", borough |-> "Brooklyn", zone |-> "south_brooklyn",
        aliases |-> << "bensonhurst" >>],
       [key |-> "coney_island", name |-> "Coney Island", borough |-> "Brooklyn", zone |-> "south_brooklyn",
        aliases |-> << "coney island" >>],
       [key |-> "astoria", name |-> "Astoria", borough |-> "Queens", zone |-> "west_queens",
        aliases |-> << "astoria" >>],
       [key |-> "long_island_city", name |-> "Long Island City", borough |-> "Queens", zone |-> "west_queens",
        aliases |-> << "long island city", "lic", "hunters point" >>],
       [key |-> "sunnyside", name |-> "Sunnyside", borough |-> "Queens", zone |-> "west_queens",
        aliases |-> << "sunnyside" >>],
       [key |-> "woodside", name |-> "Woodside", borough |-> "Queens", zone |-> "west_queens",
        aliases |-> << "woodside" >>],
       [key |-> "elmhurst", name |-> "Elmhurst", borough |-> "Queens", zone |-> "central_queens",
        aliases |-> << "elmhurst" >>],
       [key |-> "jackson_heights", name |-> "Jackson Heights", borough |-> "Queens", zone |-> "central_queens",
        aliases |-> << "jackson heights" >>],
       [key |-> "corona", name |-> "Corona", borough |-> "Queens", zone |-> "central_queens",
        aliases |-> << "corona" >>],
       [key |-> "flushing", name |-> "Flushing", borough |-> "Queens", zone |-> "central_queens",
        aliases |-> << "flushing" >>],
       [key |-> "forest_hills", name |-> "Forest Hills", borough |-> "Queens", zone |-> "east_queens",
        aliases |-> << "forest hills" >>],
       [key |-> "kew_gardens", name |-> "Kew Gardens", borough |-> "Queens", zone |-> "east_queens",
        aliases |-> << "kew gardens" >>],
       [key |-> "jamaica", name |-> "Jamaica", borough |-> "Queens", zone |-> "east_queens",
        aliases |-> << "jamaica", "jamaica queens" >>],
       [key |-> "queens_village", name |-> "Queens Village", borough |-> "Queens", zone |-> "east_queens",
        aliases |-> << "queens village" >>],
       [key |-> "mott_haven", name |-> "Mott Haven", borough |-> "Bronx", zone |-> "south_bronx",
        aliases |-> << "mott haven" >>],
       [key |-> "melrose", name |-> "Melrose", borough |-> "Bronx", zone |-> "south_bronx",
        aliases |-> << "melrose" >>],
       [key |-> "morrisania", name |-> "Morrisania", borough |-> "Bronx", zone |-> "south_bronx",
        aliases |-> << "morrisania" >>],
       [key |-> "concourse", name |-> "Concourse", borough |-> "Bronx", zone |-> "south_bronx",
        aliases |-> << "concourse", "grand concourse" >>],
       [key |-> "fordham", name |-> "Fordham", borough |-> "Bronx", zone |-> "central_bronx",
        aliases |-> << "fordham" >>],
       [key |-> "tremont", name |-> "Tremont", borough |-> "Bronx", zone |-> "central_bronx",
        aliases |-> << "tremont" >>],
       [key |-> "belmont", name |-> "Belmont", borough |-> "Bronx", zone |-> "central_bronx",
        aliases |-> << "belmont", "little italy bronx" >>],
       [key |-> "morris_heights", name |-> "Morris Heights", borough |-> "Bronx", zone |-> "central_bronx",
        aliases |-> << "morris heights" >>],
       [key |-> "riverdale", name |-> "Riverdale", borough |-> "Bronx", zone |-> "north_bronx",
        aliases |-> << "riverdale" >>],
       [key |-> "kingsbridge", name |-> "Kingsbridge", borough |-> "Bronx", zone |-> "north_bronx",
        aliases |-> << "kingsbridge" >>],
       [key |-> "woodlawn", name |-> "Woodlawn", borough |-> "Bronx", zone |-> "north_bronx",
        aliases |-> << "woodlawn" >>],
       [key |-> "wakefield", name |-> "Wakefield", borough |-> "Bronx", zone |-> "north_bronx",
        aliases |-> << "wakefield" >>],
       [key |-> "st_george", name |-> "St. George", borough |-> "Staten Island", zone |-> "staten_island",
        aliases |-> << "st george", "saint george" >>],
       [key |-> "stapleton", name |-> "Stapleton", borough |-> "Staten Island", zone |-> "staten_island",
        aliases |-> << "stapleton" >>],
       [key |-> "new_brighton", name |-> "New Brighton", borough |-> "Staten Island", zone |-> "staten_island",
        aliases |-> << "new brighton" >>],
       [key |-> "great_kills", name |-> "Great Kills", borough |-> "Staten Island", zone |-> "staten_island",
        aliases |-> << "great kills" >>],
       [key |-> "tottenville", name |-> "Tottenville", borough |-> "Staten Island", zone |-> "staten_island",
        aliases |-> << "tottenville" >>] >>

\* the dict of _build_borough_mapping
\* a mapping that lists for Queens a zone the proximity matrix has no row for
borough_mapping_UnknownZone ==
    [ manhattan |-> << "lower_manhattan", "midtown_manhattan", "upper_manhattan" >>,
      brooklyn |-> << "north_brooklyn", "central_brooklyn", "south_brooklyn" >>,
      queens |-> << "north_queens", "central_queens", "east_queens" >>,
      bronx |-> << "south_bronx", "central_bronx", "north_bronx" >>,
      staten_island |-> << "staten_island" >> ]

borough_mapping ==
    [ manhattan |-> << "lower_manhattan", "midtown_manhattan", "upper_manhattan" >>,
      brooklyn |-> << "north_brooklyn", "central_brooklyn", "south_brooklyn" >>,
      queens |-> << "west_queens", "central_queens", "east_queens" >>,
      bronx |-> << "south_bronx", "central_bronx", "north_bronx" >>,
      staten_island |-> << "staten_island" >> ]

\* the dict of _build_proximity_matrix
proximity_matrix ==
    [ lower_manhattan |->
          [ lower_manhattan |-> 100, midtown_manhattan |-> 80, upper_manhattan |-> 60, north_brooklyn |-> 85, central_brooklyn |-> 65,
            south_brooklyn |-> 45, west_queens |-> 70, central_queens |-> 50, east_queens |-> 35, south_bronx |-> 55,
            central_bronx |-> 40, north_bronx |-> 25, staten_island |-> 20 ],
      midtown_manhattan |->
          [ lower_manhattan |-> 80, midtown_manhattan |-> 100, upper_manhattan |-> 80, north_brooklyn |-> 75, central_brooklyn |-> 60,
            south_brooklyn |-> 40, west_queens |-> 75, central_queens |-> 55, east_queens |-> 40, south_bronx |-> 65,
            central_bronx |-> 50, north_bronx |-> 35, staten_island |-> 25 ],
      upper_manhattan |->
          [ lower_manhattan |-> 60, midtown_manhattan |-> 80, upper_manhattan |-> 100, north_brooklyn |-> 55, central_brooklyn |-> 45,
            south_brooklyn |-> 30, west_queens |-> 60, central_queens |-> 45, east_queens |-> 30, south_bronx |-> 75,
            central_bronx |-> 65, north_bronx |-> 50, staten_island |-> 20 ],
      north_brooklyn |->
          [ lower_manhattan |-> 85, midtown_manhattan |-> 75, upper_manhattan |-> 55, north_brooklyn |-> 100, central_brooklyn |-> 80,
            south_brooklyn |-> 60, west_queens |-> 70, central_queens |-> 50, east_queens |-> 35, south_bronx |-> 45,
            central_bronx |-> 35, north_bronx |-> 25, staten_island |-> 25 ],
      central_brooklyn |->
          [ lower_manhattan |-> 65, midtown_manhattan |-> 60, upper_manhattan |-> 45, north_brooklyn |-> 80, central_brooklyn |-> 100,
            south_brooklyn |-> 75, west_queens |-> 55, central_queens |-> 45, east_queens |-> 35, south_bronx |-> 35,
            central_bronx |-> 30, north_bronx |-> 20, staten_island |-> 30 ],
      south_brooklyn |->
          [ lower_manhattan |-> 45, midtown_manhattan |-> 40, upper_manhattan |-> 30, north_brooklyn |-> 60, central_brooklyn |-> 75,
            south_brooklyn |-> 100, west_queens |-> 40, central_queens |-> 35, east_queens |-> 30, south_bronx |-> 25,
            central_bronx |-> 20, north_bronx |-> 15, staten_island |-> 35 ],
      west_queens |->
          [ lower_manhattan |-> 70, midtown_manhattan |-> 75, upper_manhattan |-> 60, north_brooklyn |-> 70, central_brooklyn |-> 55,
            south_brooklyn |-> 40, west_queens |-> 100, central_queens |-> 80, east_queens |-> 65, south_bronx |-> 50,
            central_bronx |-> 40, north_bronx |-> 30, staten_island |-> 20 ],
      central_queens |->
          [ lower_manhattan |-> 50, midtown_manhattan |-> 55, upper_manhattan |-> 45, north_brooklyn |-> 50, central_brooklyn |-> 45,
            south_brooklyn |-> 35, west_queens |-> 80, central_queens |-> 100, east_queens |-> 80, south_bronx |-> 40,
            central_bronx |-> 35, north_bronx |-> 25, staten_island |-> 15 ],
      east_queens |->
          [ lower_manhattan |-> 35, midtown_manhattan |-> 40, upper_manhattan |-> 30, north_brooklyn |-> 35, central_brooklyn |-> 35,
            south_brooklyn |-> 30, west_queens |-> 65, central_queens |-> 80, east_queens |-> 100, south_bronx |-> 30,
            central_bronx |-> 25, north_bronx |-> 20, staten_island |-> 10 ],
      south_bronx |->
          [ lower_manhattan |-> 55, midtown_manhattan |-> 65, upper_manhattan |-> 75, north_brooklyn |-> 45, central_brooklyn |-> 35,
            south_brooklyn |-> 25, west_queens |-> 50, central_queens |-> 40, east_queens |-> 30, south_bronx |-> 100,
            central_bronx |-> 80, north_bronx |-> 65, staten_island |-> 15 ],
      central_bronx |->
          [ lower_manhattan |-> 40, midtown_manhattan |-> 50, upper_manhattan |-> 65, north_brooklyn |-> 35, central_brooklyn |-> 30,
            south_brooklyn |-> 20, west_queens |-> 40, central_queens |-> 35, east_queens |-> 25, south_bronx |-> 80,
            central_bronx |-> 100, north_bronx |-> 80, staten_island |-> 10 ],
      north_bronx |->
          [ lower_manhattan |-> 25, midtown_manhattan |-> 35, upper_manhattan |-> 50, north_brooklyn |-> 25, central_brooklyn |-> 20,
            south_brooklyn |-> 15, west_queens |-> 30, central_queens |-> 25, east_queens |-> 20, south_bronx |-> 65,
            central_bronx |-> 80, north_bronx |-> 100, staten_island |-> 5 ],
      staten_island |->
          [ lower_manhattan |-> 20, midtown_manhattan |-> 25, upper_manhattan |-> 20, north_brooklyn |-> 25, central_brooklyn |-> 30,
            south_brooklyn |-> 35, west_queens |-> 20, central_queens |-> 15, east_queens |-> 10, south_bronx |-> 15,
            central_bronx |-> 10, north_bronx |-> 5, staten_island |-> 100 ] ]

\* the literal of aliases.update(...) in _build_location_aliases
borough_aliases ==
    << [alias |-> "manhattan", key |-> "manhattan"],
       [alias |-> "nyc", key |-> "new_york_city"],
       [alias |-> "new york", key |-> "new_york_city"],
       [alias |-> "new york city", key |-> "new_york_city"],
       [alias |-> "brooklyn", key |-> "brooklyn"],
       [alias |-> "queens", key |-> "queens"],
       [alias |-> "bronx", key |-> "bronx"],
       [alias |-> "the bronx", key |-> "bronx"],
       [alias |-> "staten island", key |-> "staten_island"],
       [alias |-> "si", key |-> "staten_island"] >>

\* number of alias assignments made for the neighborhoods before the n-th one
AliasOffset[n \in 1..(Len(neighborhoods) + 1)] ==
    IF n = 1 THEN 0 ELSE AliasOffset[n - 1] + Len(neighborhoods[n - 1].aliases)

\* the i-th assignment  aliases[alias.lower()] = neighborhood_key  of the two
\* nested loops of _build_location_aliases, made for the n-th neighborhood
NeighborhoodAssignment(nbhds, offset, i, n) ==
    [alias |-> Lower(nbhds[n].aliases[i - offset[n]]), key |-> nbhds[n].key]

\* the assignments of the two nested loops, in execution order
NeighborhoodAssignments(nbhds, offset) ==
    [i \in 1..offset[Len(nbhds) + 1] |->
        NeighborhoodAssignment(nbhds, offset, i,
            CHOOSE n \in 1..Len(nbhds) : offset[n] < i /\ i <= offset[n + 1])]

\* the assignments of the loops, then those of aliases.update(...)
AliasAssignments ==
    NeighborhoodAssignments(neighborhoods, AliasOffset) \o borough_aliases

\* a dict built by a sequence of assignments: each key stays at the position of
\* its first assignment and holds the value of its last one
DictOf(assignments) ==
    LET first == {i \in 1..Len(assignments) :
                     \A j \in 1..(i - 1) : assignments[j].alias # assignments[i].alias}
        last(i) == CHOOSE j \in 1..Len(assignments) :
                     /\ assignments[j].alias = assignments[i].alias
                     /\ \A k \in (j + 1)..Len(assignments) :
                            assignments[k].alias # assignments[i].alias
    IN  [r \in 1..Cardinality(first) |->
            LET i == CHOOSE i \in first : Cardinality({j \in first : j <= i}) = r
            IN  [alias |-> assignments[i].alias, key |-> assignments[last(i)].key]]

\* self.aliases: the alias dict in insertion order
aliases == DictOf(AliasAssignments)

(***************************************************************************)
(* NYCLocationIntelligence: parse_location and get_proximity_score         *)
(***************************************************************************)
IsSpace(c) == c \in {" ", "\t", "\n", "\r"}

RECURSIVE LStrip(_)
LStrip(s) ==
    IF Len(s) > 0 /\ IsSpace(SubSeq(s, 1, 1)) THEN LStrip(SubSeq(s, 2, Len(s))) ELSE s

RECURSIVE RStrip(_)
RStrip(s) ==
    IF Len(s) > 0 /\ IsSpace(SubSeq(s, Len(s), Len(s)))
    THEN RStrip(SubSeq(s, 1, Len(s) - 1)) ELSE s

\* Python's  s.strip()
Strip(s) == RStrip(LStrip(s))

UpperChar(c) ==
    CASE c = "a" -> "A" [] c = "b" -> "B" [] c = "c" -> "C" [] c = "d" -> "D"
      [] c = "e" -> "E" [] c = "f" -> "F" [] c = "g" -> "G" [] c = "h" -> "H"
      [] c = "i" -> "I" [] c = "j" -> "J" [] c = "k" -> "K" [] c = "l" -> "L"
      [] c = "m" -> "M" [] c = "n" -> "N" [] c = "o" -> "O" [] c = "p" -> "P"
      [] c = "q" -> "Q" [] c = "r" -> "R" [] c = "s" -> "S" [] c = "t" -> "T"
      [] c = "u" -> "U" [] c = "v" -> "V" [] c = "w" -> "W" [] c = "x" -> "X"
      [] c = "y" -> "Y" [] c = "z" -> "Z" [] OTHER -> c

IsLetter(c) == LowerChar(c) # c \/ UpperChar(c) # c

\* Python's  s.title(): a letter is upper-cased after a non-letter, lower-cased after a letter
RECURSIVE TitleFrom(_, _)
TitleFrom(s, afterLetter) ==
    IF Len(s) = 0 THEN ""
    ELSE (IF afterLetter THEN LowerChar(SubSeq(s, 1, 1)) ELSE UpperChar(SubSeq(s, 1, 1)))
         \o TitleFrom(SubSeq(s, 2, Len(s)), IsLetter(SubSeq(s, 1, 1)))

Title(s) == TitleFrom(s, FALSE)

NeighborhoodKeys == {neighborhoods[n].key : n \in 1..Len(neighborhoods)}

\* self.neighborhoods[key]
NeighborhoodData(k) ==
    neighborhoods[CHOOSE n \in 1..Len(neighborhoods) : neighborhoods[n].key = k]

\* the value None of an Optional[Dict] result
NoLocation == [type |-> "none", key |-> "", data |-> [name |-> "", borough |-> ""], confidence |-> 0]

BoroughNames == << "manhattan", "brooklyn", "queens", "bronx", "staten island" >>

nyc_terms == << "new york", "nyc", "ny" >>

\* the entries of the alias dict that the partial-match loop of parse_location accepts
PartialHits(alias_dict, text) ==
    {i \in 1..Len(alias_dict) :
        /\ Contains(text, alias_dict[i].alias) \/ Contains(alias_dict[i].alias, text)
        /\ alias_dict[i].key \in NeighborhoodKeys}

BoroughHits(text) == {b \in 1..Len(BoroughNames) : Contains(text, BoroughNames[b])}

SetMin(S) == CHOOSE x \in S : \A y \in S : x <= y

\* position of an alias in the alias dict (0 when it is not a key)
AliasIndex(alias_dict, text) ==
    IF \E i \in 1..Len(alias_dict) : alias_dict[i].alias = text
    THEN CHOOSE i \in 1..Len(alias_dict) : alias_dict[i].alias = text
    ELSE 0

NeighborhoodResult(k, conf) ==
    [type |-> "neighborhood", key |-> k, data |-> NeighborhoodData(k), confidence |-> conf]

BoroughResult(borough) ==
    [type |-> "borough", key |-> borough,
     data |-> [name |-> Title(borough), borough |-> Title(borough)], confidence |-> 60]

\* the borough-level and the city-level match; boroughs are the borough names
\* found in the text
BoroughOrCity(text, boroughs) ==
    IF boroughs # {} THEN BoroughResult(BoroughNames[SetMin(boroughs)])
    ELSE IF \E t \in 1..Len(nyc_terms) : Contains(text, nyc_terms[t])
    THEN [type |-> "city", key |-> "new_york_city",
          data |-> [name |-> "New York City", borough |-> "All"], confidence |-> 40]
    ELSE NoLocation

\* the direct alias match, then the partial match, then the rest; direct is the
\* position of the text in the alias dict and partial the entries the partial
\* loop accepts
MatchAlias(alias_dict, text, direct, partial) ==
    IF direct # 0 /\ alias_dict[direct].key \in NeighborhoodKeys
    THEN NeighborhoodResult(alias_dict[direct].key, 100)
    ELSE IF partial # {}
    THEN NeighborhoodResult(alias_dict[SetMin(partial)].key, 80)
    ELSE BoroughOrCity(text, BoroughHits(text))

ParseIn(alias_dict, text) ==
    MatchAlias(alias_dict, text, AliasIndex(alias_dict, text), PartialHits(alias_dict, text))

\* parse_location after  location_text = location_text.lower().strip()
ParseNormalized(text) == ParseIn(aliases, text)

parse_location(location_text) ==
    IF location_text = "" THEN NoLocation
    ELSE ParseNormalized(Strip(Lower(location_text)))

\* the zone chosen for one parsed side in get_proximity_score ("" stands for None)
ZoneOfParsed(parsed) ==
    IF parsed.type = "neighborhood" THEN parsed.data.zone
    ELSE IF parsed.type = "borough"
    THEN LET borough_zones == Get(borough_mapping, parsed.key, << >>)
         IN  IF Len(borough_zones) > 0 THEN borough_zones[1] ELSE ""
    ELSE ""

\* the last two statements of get_proximity_score, reading the matrix that
\* _build_proximity_matrix returned
ZoneProximityIn(matrix, zone1, zone2) ==
    IF zone1 # "" /\ zone2 # "" /\ zone1 \in DOMAIN matrix
    THEN Get(matrix[zone1], zone2, 0)
    ELSE 20

\* the last two statements of get_proximity_score
ZoneProximity(zone1, zone2) == ZoneProximityIn(proximity_matrix, zone1, zone2)

\* get_proximity_score after the two calls of parse_location, on an instance
\* whose self.proximity_matrix is matrix
ParsedProximityIn(matrix, parsed1, parsed2) ==
    IF parsed1.type = "none" \/ parsed2.type = "none" THEN 0
    ELSE IF parsed1.key = parsed2.key THEN 100
    ELSE ZoneProximityIn(matrix, ZoneOfParsed(parsed1), ZoneOfParsed(parsed2))

\* only the first resolution tested for None
ParsedProximity_FirstSideTested(parsed1, parsed2) ==
    IF parsed1.type = "none" THEN 0
    ELSE IF parsed1.key = parsed2.key THEN 100
    ELSE ZoneProximity(ZoneOfParsed(parsed1), ZoneOfParsed(parsed2))

\* get_proximity_score after the two calls of parse_location
ParsedProximity(parsed1, parsed2) ==
    IF parsed1.type = "none" \/ parsed2.type = "none" THEN 0
    ELSE IF parsed1.key = parsed2.key THEN 100
    ELSE ZoneProximity(ZoneOfParsed(parsed1), ZoneOfParsed(parsed2))

get_proximity_score(location1, location2) ==
    ParsedProximity(parse_location(location1), parse_location(location2))



(***************************************************************************)
(* OptimizedProfileMatcher: static tables and precomputed features         *)
(***************************************************************************)
\* the dict of _define_genre_similarities (similarities in hundredths)
genre_similarities ==
    [ jazz |-> [jazz |-> 100, blues |-> 80, soul |-> 70, fusion |-> 90, bebop |-> 90]
               @@ ("hard bop" :> 90) @@ ("contemporary jazz" :> 80)
               @@ ("latin jazz" :> 70) @@ ("neo-soul" :> 60),
      rock |-> [rock |-> 100, alternative |-> 80, blues |-> 70, funk |-> 60,
                pop |-> 50, indie |-> 80]
               @@ ("indie rock" :> 90) @@ ("post-rock" :> 70),
      blues |-> [blues |-> 100, jazz |-> 80, rock |-> 70, soul |-> 80, gospel |-> 60,
                 country |-> 50, americana |-> 60]
               @@ ("r&b" :> 70),
      soul |-> [soul |-> 100, gospel |-> 80, jazz |-> 70, blues |-> 80, funk |-> 70]
               @@ ("r&b" :> 90) @@ ("neo-soul" :> 90),
      folk |-> [folk |-> 100, americana |-> 80, country |-> 70, bluegrass |-> 60,
                celtic |-> 50]
               @@ ("indie folk" :> 90) @@ ("singer-songwriter" :> 80),
      classical |-> [classical |-> 100, chamber |-> 90, opera |-> 70, baroque |-> 80,
                     romantic |-> 80]
               @@ ("contemporary classical" :> 80) ]
    @@ ("world music" :>
          ([traditional |-> 70, ethnic |-> 80, cultural |-> 70]
               @@ ("world music" :> 100) @@ ("world fusion" :> 80)))

\* the keys that _precompute_profile_features adds to a profile
DerivedKeys ==
    {"_instrument_groups", "_genre_keys", "_influence_keys", "_location_lower", "_location_parts"}

\* Python's  s.split(', ')
RECURSIVE SplitCommaSpace(_, _)
SplitCommaSpace(s, cur) ==
    IF Len(s) = 0 THEN << cur >>
    ELSE IF Len(s) >= 2 /\ SubSeq(s, 1, 2) = ", "
    THEN << cur >> \o SplitCommaSpace(SubSeq(s, 3, Len(s)), "")
    ELSE SplitCommaSpace(SubSeq(s, 2, Len(s)), cur \o SubSeq(s, 1, 1))

\* the body of the loop of _precompute_profile_features for one profile
PrecomputeFeatures(profile) ==
    LET location == Get(profile, "location", "")
    IN  ("_instrument_groups" :> GroupList(<< >>, Get(profile, "instruments", << >>), 1))
        @@ ("_genre_keys" :> LowerAll(Get(profile, "genres", << >>)))
        @@ ("_influence_keys" :> LowerAll(Get(profile, "musical_influences", << >>)))
        @@ ("_location_lower" :> Lower(location))
        @@ ("_location_parts" :>
                IF location # "" THEN SplitCommaSpace(Lower(location), "") ELSE << >>)
        @@ profile

(***************************************************************************)
(* OptimizedProfileMatcher: the six factor scores (hundredths)             *)
(***************************************************************************)
complementary_pairs ==
    << << "rhythm_section", "harmony" >>,
       << "rhythm_section", "melody" >>,
       << "harmony", "melody" >>,
       << "strings", "percussion" >>,
       << "winds", "rhythm_section" >> >>

\* the two contributions exchanged: 0.8 for the same group, 0.7 for a
\* complementary pair
GroupPairScore_Exchanged(q_group, p_group) ==
    IF q_group = p_group THEN 80
    ELSE IF << q_group, p_group >> \in Range(complementary_pairs)
            \/ << p_group, q_group >> \in Range(complementary_pairs) THEN 70
    ELSE 0

\* the contribution of one (q_group, p_group) pair in the double loop
GroupPairScore(q_group, p_group) ==
    IF q_group = p_group THEN 70
    ELSE IF << q_group, p_group >> \in Range(complementary_pairs)
            \/ << p_group, q_group >> \in Range(complementary_pairs) THEN 80
    ELSE 0

SetMax(S) == CHOOSE x \in S : \A y \in S : x >= y

score_instrument_compatibility(query_instruments, profile) ==
    LET profile_instruments == Get(profile, "instruments", << >>)
        query_groups == GroupsOf(query_instruments)
        profile_groups == Range(Get(profile, "_instrument_groups", << >>))
    IN  IF Len(query_instruments) = 0 THEN 50
        ELSE IF Len(profile_instruments) = 0 THEN 0
        ELSE IF LowerSet(query_instruments) \cap LowerSet(profile_instruments) # {} THEN 100
        ELSE SetMax({0} \cup {GroupPairScore(q, p) : q \in query_groups, p \in profile_groups})

\* the value of max_similarity after the loop has handled the first n query genres
RECURSIVE GenreLoop(_, _, _, _)
GenreLoop(query_genres, profile_genre_keys, n, max_similarity) ==
    IF n > Len(query_genres) THEN max_similarity
    ELSE LET query_lower == Lower(query_genres[n])
         IN  IF query_lower \in profile_genre_keys THEN 100
             ELSE GenreLoop(query_genres, profile_genre_keys, n + 1,
                    IF query_lower \in DOMAIN genre_similarities
                    THEN SetMax({max_similarity} \cup
                                {Get(genre_similarities[query_lower], g, 0) : g \in profile_genre_keys})
                    ELSE max_similarity)

score_genre_compatibility(query_genres, profile) ==
    LET profile_genre_keys == Range(Get(profile, "_genre_keys", << >>))
    IN  IF Len(query_genres) = 0 THEN 50
        ELSE IF profile_genre_keys = {} THEN 30
        ELSE GenreLoop(query_genres, profile_genre_keys, 1, 0)

\* proximity_score / 100.0, in hundredths
score_location_compatibility(query_location, profile) ==
    LET profile_location == Get(profile, "location", "")
    IN  IF query_location = "" THEN 50
        ELSE IF profile_location = "" THEN 40
        ELSE get_proximity_score(query_location, profile_location)

score_availability_compatibility(query_availability, profile_availability) ==
    LET query_lower == Lower(query_availability)
        profile_lower == Lower(profile_availability)
    IN  IF query_availability = "" \/ profile_availability = "" THEN 50
        ELSE IF query_lower = profile_lower THEN 100
        ELSE IF Contains(query_lower, "flexible") \/ Contains(profile_lower, "flexible") THEN 75
        ELSE IF \/ Contains(query_lower, "evening") /\ Contains(profile_lower, "evening")
                \/ Contains(query_lower, "weekend") /\ Contains(profile_lower, "weekend") THEN 90
        ELSE IF \/ Contains(query_lower, "twice") /\ Contains(profile_lower, "twice")
                \/ Contains(query_lower, "once") /\ Contains(profile_lower, "once") THEN 90
        ELSE 45

\* the score without the bonus of 0.1 per shared influence
score_musical_influence_without_bonus(query_influences, profile) ==
    LET profile_influence_keys == Range(Get(profile, "_influence_keys", << >>))
        exact_matches == Cardinality(LowerSet(query_influences) \cap profile_influence_keys)
    IN  IF Len(query_influences) = 0 THEN 50
        ELSE IF profile_influence_keys = {} THEN 40
        ELSE IF exact_matches > 0 THEN 80
        ELSE 35

\* the score with the bonus of the shared influences left uncapped
score_musical_influence_uncapped(query_influences, profile) ==
    LET profile_influence_keys == Range(Get(profile, "_influence_keys", << >>))
        exact_matches == Cardinality(LowerSet(query_influences) \cap profile_influence_keys)
    IN  IF Len(query_influences) = 0 THEN 50
        ELSE IF profile_influence_keys = {} THEN 40
        ELSE IF exact_matches > 0 THEN 80 + exact_matches * 10
        ELSE 35

score_musical_influence_compatibility(query_influences, profile) ==
    LET profile_influence_keys == Range(Get(profile, "_influence_keys", << >>))
        exact_matches == Cardinality(LowerSet(query_influences) \cap profile_influence_keys)
    IN  IF Len(query_influences) = 0 THEN 50
        ELSE IF profile_influence_keys = {} THEN 40
        ELSE IF exact_matches > 0 THEN Min2(100, 80 + exact_matches * 10)
        ELSE 35

\* the collaboration-intent branch of calculate_compatibility_score
ScoreCollaborationIntent(query_intent, profile_intent) ==
    IF query_intent # "" /\ profile_intent # ""
    THEN IF Lower(query_intent) = Lower(profile_intent) THEN 100
         ELSE IF Contains(Lower(query_intent), "band") /\ Contains(Lower(profile_intent), "band")
         THEN 90
         ELSE 60
    ELSE 70

(***************************************************************************)
(* OptimizedProfileMatcher.calculate_compatibility_score                   *)
(***************************************************************************)
\* the weights dict, in hundredths
weights ==
    [instruments |-> 30, genres |-> 20, location |-> 15, availability |-> 15,
     influences |-> 15, collaboration_intent |-> 5]

Factors ==
    << "instruments", "genres", "location", "availability", "influences",
       "collaboration_intent" >>

\* the scores dict (detailed_scores)
DetailedScores(query, profile) ==
    [instruments |->
        score_instrument_compatibility(Get(query, "instruments", << >>), profile),
     genres |->
        score_genre_compatibility(Get(query, "musical_influences", << >>), profile),
     location |->
        score_location_compatibility(Get(query, "location", ""), profile),
     availability |->
        score_availability_compatibility(Get(query, "availability", ""),
                                         Get(profile, "availability", "")),
     influences |->
        score_musical_influence_compatibility(Get(query, "musical_influences", << >>), profile),
     collaboration_intent |->
        ScoreCollaborationIntent(Get(query, "collaboration_intent", ""),
                                 Get(profile, "collaboration_intent", ""))]

RECURSIVE WeightedSum(_, _)
WeightedSum(scores, n) ==
    IF n = 0 THEN 0
    ELSE WeightedSum(scores, n - 1) + scores[Factors[n]] * weights[Factors[n]]

\* total_score, in 1/10000
TotalScore(scores) == WeightedSum(scores, Len(Factors))

\* the pair returned for the scores dict built
ScoredAs(scores) == [total_score |-> TotalScore(scores), detailed_scores |-> scores]

calculate_compatibility_score(query, profile) == ScoredAs(DetailedScores(query, profile))


(***************************************************************************)
(* OptimizedProfileMatcher.find_matches: the pieces of the pipeline        *)
(***************************************************************************)
\* Python's  k.startswith('_')
StartsWithUnderscore(k) == Len(k) >= 1 /\ SubSeq(k, 1, 1) = "_"

\* {k: v for k, v in profile.items() if not k.startswith('_')}
CleanProfile(profile) ==
    [k \in {k \in DOMAIN profile : ~StartsWithUnderscore(k)} |-> profile[k]]

\* round(compatibility_score, 3), in thousandths, of a total given in 1/10000.
\* Python rounds the binary float; on an exact decimal tie (a total ending in
\* 5) the direction depends on the float's error, modelled here as half-even.
Round3(total) ==
    LET q == total \div 10
        r == total % 10
    IN  IF r < 5 THEN q
        ELSE IF r > 5 THEN q + 1
        ELSE IF q % 2 = 0 THEN q ELSE q + 1

\* one clause of an explanation: its text, and for a clause that lists names
\* (', '.join over a set, whose order Python does not fix) the set of names
Clause(text, names) == [text |-> text, names |-> names]

_generate_match_explanation(query, profile, scores) ==
    LET shared == LowerSet(Get(query, "instruments", << >>))
                      \cap LowerSet(Get(profile, "instruments", << >>))
        shared_influences == LowerSet(Get(query, "musical_influences", << >>))
                      \cap LowerSet(Get(profile, "musical_influences", << >>))
        profile_location == Get(profile, "location", "")
        explanations ==
            (IF scores.instruments >= 80
             THEN << IF shared # {} THEN Clause("Plays same instruments: ", shared)
                     ELSE Clause("Instruments complement each other well", {}) >>
             ELSE << >>)
            \o (IF scores.genres >= 70
                THEN << Clause("Strong musical genre compatibility", {}) >> ELSE << >>)
            \o (IF scores.location >= 80
                THEN << IF Lower(Get(query, "location", "")) = Lower(profile_location)
                        THEN Clause("Same location: " \o profile_location, {})
                        ELSE Clause("Close geographic proximity", {}) >>
                ELSE << >>)
            \o (IF scores.availability >= 80
                THEN << Clause("Compatible schedules and availability", {}) >> ELSE << >>)
            \o (IF scores.influences >= 70
                THEN << IF shared_influences # {}
                        THEN Clause("Shared influences: ", shared_influences)
                        ELSE Clause("Similar musical taste and influences", {}) >>
                ELSE << >>)
            \o (IF scores.collaboration_intent >= 80
                THEN << Clause("Aligned collaboration goals", {}) >> ELSE << >>)
    IN  SliceTo(IF Len(explanations) = 0
                THEN << Clause("Good overall compatibility across multiple factors", {}) >>
                ELSE explanations, 3)

\* Python's  sep.join(seq)
RECURSIVE Join(_, _)
Join(seq, sep) ==
    IF Len(seq) = 0 THEN ""
    ELSE IF Len(seq) = 1 THEN seq[1]
    ELSE seq[1] \o sep \o Join(Tail(seq), sep)

_generate_query_summary(query) ==
    LET parts ==
            (IF Len(Get(query, "instruments", << >>)) > 0
             THEN << "Instruments: " \o Join(query["instruments"], ", ") >> ELSE << >>)
            \o (IF Get(query, "location", "") # ""
                THEN << "Location: " \o query["location"] >> ELSE << >>)
            \o (IF Get(query, "availability", "") # ""
                THEN << "Availability: " \o query["availability"] >> ELSE << >>)
            \o (IF Len(Get(query, "musical_influences", << >>)) > 0
                THEN << "Influences: " \o Join(SliceTo(query["musical_influences"], 3), ", ") >>
                ELSE << >>)
            \o (IF Get(query, "collaboration_intent", "") # ""
                THEN << "Intent: " \o query["collaboration_intent"] >> ELSE << >>)
    IN  IF Len(parts) > 0 THEN Join(parts, " | ") ELSE "General search"

\* the pre-filter test of find_matches for one profile
PassesPreFilter(query_instruments, profile) ==
    \/ LowerSet(query_instruments) \cap LowerSet(Get(profile, "instruments", << >>)) # {}
    \/ Range(Get(profile, "_instrument_groups", << >>)) \cap GroupsOf(query_instruments) # {}

\* the positions i with keep[i], in increasing order
KeptPositions(keep) ==
    LET kept == {i \in DOMAIN keep : keep[i]}
    IN  [r \in 1..Cardinality(kept) |->
            CHOOSE i \in kept : Cardinality({j \in kept : j <= i}) = r]

PickAll(seq, positions) == [r \in 1..Len(positions) |-> seq[positions[r]]]

\* Python's  [x for x in seq if <test>]; keep[i] is the test's value on seq[i]
Filter(seq, keep) == PickAll(seq, KeptPositions(keep))

\* candidate_profiles
CandidateProfiles(profs, query) ==
    LET query_instruments == Get(query, "instruments", << >>)
        keep == [i \in 1..Len(profs) |-> PassesPreFilter(query_instruments, profs[i])]
    IN  IF Len(query_instruments) > 0 THEN Filter(profs, keep) ELSE profs

\* the match dict built for a profile from what calculate_compatibility_score
\* returned for it
MatchOf(query, profile, scored) ==
    [profile |-> CleanProfile(profile),
     compatibility_score |-> Round3(scored.total_score),
     detailed_scores |-> scored.detailed_scores,
     explanation |-> _generate_match_explanation(query, profile, scored.detailed_scores)]

\* the test turned around: <= in the place of >=
ReachesThreshold_Inverted(total_score, min_compatibility) == total_score <= min_compatibility

\* the test with > in the place of >=
ReachesThreshold_Strict(total_score, min_compatibility) == total_score > min_compatibility

\* the test  total_score >= min_compatibility  of the scoring loop
ReachesThreshold(total_score, min_compatibility) == total_score >= min_compatibility

\* per candidate, what calculate_compatibility_score returns in the scoring loop
ScoreAll(candidates, query) ==
    [i \in 1..Len(candidates) |-> calculate_compatibility_score(query, candidates[i])]

\* the matches appended for the candidates at the given positions
MatchesAt(candidates, scored, query, positions) ==
    [r \in 1..Len(positions) |->
        MatchOf(query, candidates[positions[r]], scored[positions[r]])]

\* the matches list after the scoring loop, given the candidates' scores
Thresholded(candidates, scored, query, min_compatibility) ==
    MatchesAt(candidates, scored, query,
              KeptPositions([i \in 1..Len(candidates) |->
                                ReachesThreshold(scored[i].total_score, min_compatibility)]))

\* the scoring loop: the matches of the candidates that reach the threshold
ScoreAndThreshold(candidates, query, min_compatibility) ==
    Thresholded(candidates, ScoreAll(candidates, query), query, min_compatibility)

\* a descending sort that puts equal keys in the reverse of their input order
SortDescending_TiesReversed(seq, keys) ==
    LET pos(i) == Cardinality({j \in 1..Len(seq) : keys[j] > keys[i]})
                  + Cardinality({j \in i..Len(seq) : keys[j] = keys[i]})
    IN  [r \in 1..Len(seq) |-> seq[CHOOSE i \in 1..Len(seq) : pos(i) = r]]

\* list.sort(key=..., reverse=True): stable, descending by key; keys[i] is the
\* key of seq[i]
SortDescending(seq, keys) ==
    LET pos(i) == Cardinality({j \in 1..Len(seq) : keys[j] > keys[i]})
                  + Cardinality({j \in 1..i : keys[j] = keys[i]})
    IN  [r \in 1..Len(seq) |-> seq[CHOOSE i \in 1..Len(seq) : pos(i) = r]]

\* key=lambda x: x['compatibility_score'] over a list of matches
CompatKey(matches) == [i \in 1..Len(matches) |-> matches[i].compatibility_score]

\* matches.sort(key=lambda x: x['compatibility_score'], reverse=True)
SortByScore(matches) == SortDescending(matches, CompatKey(matches))

\* the cap applied to the survivors before they are sorted
RankedMatches_CutBeforeSort(candidates, query, min_compatibility, max_results) ==
    SortByScore(SliceTo(ScoreAndThreshold(candidates, query, min_compatibility), max_results))

\* the matches list after scoring, sorting and truncating the given candidates
RankedMatches(candidates, query, min_compatibility, max_results) ==
    SliceTo(SortByScore(ScoreAndThreshold(candidates, query, min_compatibility)), max_results)

\* the result dict built for the final matches list, without its two wall-clock
\* readings processing_time_ms and search_timestamp, which no operation reads back
ResultOf(matches, query) ==
    [matches |-> matches,
     total_found |-> Len(matches),
     query_summary |-> _generate_query_summary(query),
     from_cache |-> FALSE]

\* the result dict of a call that misses the cache
ComputeResult(profs, query, min_compatibility, max_results) ==
    ResultOf(RankedMatches(CandidateProfiles(profs, query), query,
                           min_compatibility, max_results), query)

\* a key made of the query and the threshold only
CacheKey_IgnoringCap(query, min_compatibility, max_results) ==
    << query, min_compatibility >>

\* cache_key_full.  json.dumps(query, sort_keys=True) is one-to-one on query
\* dicts compared without regard to key order, and the formatted threshold and
\* cap are one-to-one on their values, so the key is the triple itself (two
\* different queries with the same md5 digest are not modelled).
CacheKey(query, min_compatibility, max_results) ==
    << query, min_compatibility, max_results >>


(***************************************************************************)
(* MusicQueryParser: the rule-based parser (parse_with_spacy) and          *)
(* parse_query.  A field that the code sets to None is an absent key.      *)
(***************************************************************************)
\* the instruments dict of parse_with_spacy, in insertion order
parser_instruments ==
    << [instrument |-> "guitar", synonyms |-> {"guitar", "guitarist", "axe", "shred", "riff", "six-string"}],
       [instrument |-> "bass", synonyms |-> {"bass", "bassist", "four-string", "low-end", "rhythm section"}],
       [instrument |-> "drums", synonyms |-> {"drums", "drummer", "percussion", "beat", "rhythm", "kit", "sticks"}],
       [instrument |-> "piano", synonyms |-> {"piano", "pianist", "keys", "keyboard", "keyboardist", "ivories"}],
       [instrument |-> "vocals", synonyms |-> {"vocals", "vocalist", "singer", "singing", "voice", "mic", "frontman", "frontwoman"}],
       [instrument |-> "violin", synonyms |-> {"violin", "violinist", "fiddle", "strings"}],
       [instrument |-> "saxophone", synonyms |-> {"saxophone", "sax", "saxophonist"}],
       [instrument |-> "trumpet", synonyms |-> {"trumpet", "trumpeter", "horn"}],
       [instrument |-> "flute", synonyms |-> {"flute", "flutist"}],
       [instrument |-> "cello", synonyms |-> {"cello", "cellist"}] >>

\* any(keyword in text for keyword in keywords)
ContainsAny(text, keywords) == \E k \in keywords : Contains(text, k)

\* result["instruments"] after the detection loop
DetectedInstruments(query_lower) ==
    LET hit == [i \in 1..Len(parser_instruments) |->
                    ContainsAny(query_lower, parser_instruments[i].synonyms)]
        hits == Filter(parser_instruments, hit)
    IN  [i \in 1..Len(hits) |-> hits[i].instrument]

\* the gender_keywords dict of parse_with_spacy ("" stands for None)
DetectedGender(query_lower) ==
    IF ContainsAny(query_lower, {"female", "woman", "girl", "she", "her", "gal", "lady",
                                 "chick", "frontwoman"}) THEN "female"
    ELSE IF ContainsAny(query_lower, {"male", "man", "guy", "he", "him", "his", "dude",
                                      "bro", "gentleman", "frontman"}) THEN "male"
    ELSE ""

\* the locations list of parse_with_spacy, as written
parser_locations ==
    << "brooklyn", "manhattan", "los angeles", "chicago", "nashville", "austin",
       "seattle", "portland", "denver", "atlanta", "boston", "miami",
       "dallas", "houston", "phoenix", "san francisco", "detroit", "philadelphia",
       "new york", "la", "nyc", "sf", "dc", "washington dc",
       "baltimore", "tampa", "orlando", "vegas", "las vegas", "san diego",
       "sacramento", "oakland", "minneapolis", "cleveland", "pittsburgh", "milwaukee",
       "kansas city", "new orleans", "california", "new york state", "texas", "florida",
       "illinois", "pennsylvania", "ohio", "georgia", "north carolina", "michigan",
       "virginia", "washington state", "arizona", "massachusetts", "tennessee", "indiana",
       "missouri", "maryland", "wisconsin", "colorado", "minnesota", "south carolina",
       "alabama", "louisiana", "turkey", "england", "uk", "united kingdom",
       "canada", "australia", "germany", "france", "italy", "spain",
       "netherlands", "sweden", "norway", "denmark", "finland", "japan",
       "south korea", "brazil", "mexico", "argentina", "chile", "ireland",
       "scotland", "wales", "belgium", "switzerland", "austria", "poland",
       "czech republic", "hungary", "portugal", "greece", "russia", "india",
       "china", "london", "paris", "berlin", "madrid", "rome",
       "amsterdam", "stockholm", "oslo", "copenhagen", "helsinki", "tokyo",
       "seoul", "sydney", "melbourne", "toronto", "vancouver", "montreal",
       "dublin", "edinburgh", "barcelona", "munich", "vienna", "prague",
       "budapest", "lisbon", "athens", "moscow", "mumbai", "delhi",
       "bangalore", "shanghai", "beijing", "hong kong", "singapore" >>

\* key=len over a list of strings
LenKey(strings) == [i \in 1..Len(strings) |-> Len(strings[i])]

\* locations.sort(key=len, reverse=True)
SortedParserLocations == SortDescending(parser_locations, LenKey(parser_locations))

\* the clean-up of abbreviations applied to the location that matched
CleanLocation(location) ==
    CASE location = "la" -> "Los Angeles"
      [] location = "nyc" -> "New York"
      [] location = "sf" -> "San Francisco"
      [] location = "dc" -> "Washington DC"
      [] location = "vegas" -> "Las Vegas"
      [] OTHER -> Title(location)

\* result["location"] ("" stands for None)
DetectedLocation(query_lower) ==
    LET hits == {i \in 1..Len(SortedParserLocations) :
                    Contains(query_lower, SortedParserLocations[i])}
    IN  IF hits = {} THEN "" ELSE CleanLocation(SortedParserLocations[SetMin(hits)])

\* the collaboration_patterns list of parse_with_spacy
collaboration_patterns ==
    << [keywords |-> {"band", "group", "bandmate", "member"}, intent |-> "band formation"],
       [keywords |-> {"session", "gig", "recording", "studio work", "hired gun"}, intent |-> "session work"],
       [keywords |-> {"duo", "pair", "partner", "acoustic duo"}, intent |-> "duo collaboration"],
       [keywords |-> {"project", "musical project", "prog rock project", "side project"}, intent |-> "project collaboration"],
       [keywords |-> {"jam", "jamming", "jam session"}, intent |-> "jamming"],
       [keywords |-> {"teach", "teaching", "lessons", "instructor"}, intent |-> "teaching"],
       [keywords |-> {"cover band", "tribute"}, intent |-> "cover band"],
       [keywords |-> {"original", "originals", "songwriting"}, intent |-> "original music"] >>

\* result["collaboration_intent"] ("" stands for None)
DetectedIntent(query_lower) ==
    LET hits == {i \in 1..Len(collaboration_patterns) :
                    ContainsAny(query_lower, collaboration_patterns[i].keywords)}
    IN  IF hits = {} THEN "" ELSE collaboration_patterns[SetMin(hits)].intent

\* The availability and influence rules of parse_with_spacy are regular
\* expressions.  Every one of them needs one of these words in the text; a
\* text without any of them gets availability None and no influences.
RegexTriggers ==
    {"only", "week", "time", "hour", "evening", "schedule", "like", "similar",
     "style", "reminiscent", "channeling"}

HasRegexTrigger(query_lower) == ContainsAny(query_lower, RegexTriggers)

\* a dict with the keys whose value is not None
DropEmpty(d) == [k \in {k \in DOMAIN d : d[k] # ""} |-> d[k]]

\* parse_with_spacy for a text that none of the regular expressions matches
parse_with_spacy(query) ==
    LET query_lower == Lower(query)
        found == DetectedInstruments(query_lower)
    IN  (IF Len(found) > 0 THEN ("instruments" :> found) ELSE << >>)
        @@ DropEmpty([gender |-> DetectedGender(query_lower),
                      location |-> DetectedLocation(query_lower),
                      collaboration_intent |-> DetectedIntent(query_lower)])

\* parse_query when no OpenAI client is configured, called at time now
parse_query(query, now) ==
    IF Strip(query) = "" THEN [error |-> "Empty query provided"]
    ELSE parse_with_spacy(query)
         @@ [parsed_by |-> "spacy", confidence |-> "medium"]
         @@ ("timestamp" :> now) @@ ("original_query" :> query)


(***************************************************************************)
(* NYCLocationIntelligence.get_nearby_neighborhoods                        *)
(***************************************************************************)
_get_travel_description(score) ==
    IF score >= 90 THEN "Same area - walking distance"
    ELSE IF score >= 80 THEN "Very close - short subway ride"
    ELSE IF score >= 70 THEN "Close - same borough or adjacent"
    ELSE IF score >= 50 THEN "Moderate - cross-borough commute"
    ELSE IF score >= 30 THEN "Distant - longer commute required"
    ELSE "Very distant - significant travel time"

\* the dict appended to nearby for a neighborhood with its score
NearbyEntry(neighborhood_data, score) ==
    [neighborhood |-> neighborhood_data.name, key |-> neighborhood_data.key,
     borough |-> neighborhood_data.borough, zone |-> neighborhood_data.zone,
     proximity_score |-> score, travel_description |-> _get_travel_description(score)]

\* the scores of the loop of get_nearby_neighborhoods, one per registered
\* neighborhood in the order of self.neighborhoods
NearbyScores(location) ==
    [n \in 1..Len(neighborhoods) |-> get_proximity_score(location, neighborhoods[n].name)]

\* the list nearby after the loop
NearbyList(scores, min_score) ==
    Filter([n \in 1..Len(neighborhoods) |-> NearbyEntry(neighborhoods[n], scores[n])],
           [n \in 1..Len(neighborhoods) |-> scores[n] >= min_score])

\* a sort of nearby that puts the lowest proximity score first
SortByProximity_Ascending(nearby) ==
    SortDescending(nearby, [i \in 1..Len(nearby) |-> 0 - nearby[i].proximity_score])

\* nearby.sort(key=lambda x: x["proximity_score"], reverse=True)
SortByProximity(nearby) ==
    SortDescending(nearby, [i \in 1..Len(nearby) |-> nearby[i].proximity_score])

get_nearby_neighborhoods(location, min_score) ==
    IF parse_location(location).type = "none" THEN << >>
    ELSE SortByProximity(NearbyList(NearbyScores(location), min_score))


(***************************************************************************)
(* State of the service                                                    *)
(***************************************************************************)
VARIABLES
    profiles,   \* matcher.profiles: the loaded profile dicts, with their derived features
    cache,      \* matcher._query_cache: cache_key_full -> stored result dict
    clock,      \* the wall clock read by datetime.now(); the number of calls made, in a sweep
    resp,       \* the response to the last request handled
    input,      \* the arguments drawn for a specification of a single function
    threads,    \* per worker thread: the find_matches invocation it is running
    computed,   \* history: the argument triples find_matches has computed a result for
    started,    \* history: the number of invocations begun on worker threads
    returned    \* history: per argument triple, the result dicts its calls returned

vars == << profiles, cache, clock, resp, input, threads, computed, started, returned >>

\* _query_cache holds at most this many entries
CacheLimit == 100

\* an empty dict
EmptyDict == << >>

NoResponse == [op |-> "none"]

\* self.profiles after _load_profiles and _precompute_profile_features
LoadProfiles(raw) == [i \in 1..Len(raw) |-> PrecomputeFeatures(raw[i])]

(***************************************************************************)
(* OptimizedProfileMatcher.find_matches, run without interruption          *)
(***************************************************************************)
\* the dict returned on a cache hit: a copy of the entry, marked
CachedResult(entry) == [entry EXCEPT !.from_cache = TRUE]

\* the dict with its total_found not yet set
StoredCopy_Unfinished(result) == [result EXCEPT !.total_found = 0]

\* result.copy(), the dict that is stored
StoredCopy(result) == result

\* the test  len(self._query_cache) < 100
HasRoom(c) == Cardinality(DOMAIN c) < CacheLimit

\* self._query_cache[cache_key_full] = result.copy()
Inserted(c, key, result) == (key :> StoredCopy(result)) @@ c

\* a store step that empties a full cache to make room
StoreResult_ClearingWhenFull(c, key, result) ==
    IF HasRoom(c) THEN Inserted(c, key, result) ELSE Inserted(EmptyDict, key, result)

\* the cache after the store step for a result
StoreResult(c, key, result) ==
    IF HasRoom(c) THEN Inserted(c, key, result) ELSE c

\* what find_matches returns and the cache it leaves when the lookup missed
\* and result is the dict it built
Miss(c, key, result) == [result |-> result, cache |-> StoreResult(c, key, result)]

\* find_matches from the cache check on; key is cache_key_full
LookUpOrCompute(c, profs, query, min_compatibility, max_results, key) ==
    IF key \in DOMAIN c
    THEN [result |-> CachedResult(c[key]), cache |-> c]
    ELSE Miss(c, key, ComputeResult(profs, query, min_compatibility, max_results))

\* the dict returned by find_matches and the cache it leaves
find_matches(c, profs, query, min_compatibility, max_results) ==
    LookUpOrCompute(c, profs, query, min_compatibility, max_results,
                    CacheKey(query, min_compatibility, max_results))

\* the arguments of a call, as the history keeps them
CallTriple(query, min_compatibility, max_results) ==
    << query, min_compatibility, max_results >>

\* the history after one more computation for a triple: whether its first
\* computation was the first computation of all, whether the cache held fewer
\* than CacheLimit entries when that first computation reached the size check,
\* and whether the triple was computed again later
RecordComputation(h, triple, room) ==
    IF triple \in DOMAIN h
    THEN [h EXCEPT ![triple].again = TRUE]
    ELSE (triple :> [first |-> DOMAIN h = {}, room |-> room, again |-> FALSE]) @@ h

\* the history left by a handler whose response is r, served with the cache c
ComputedAfter(h, c, r) ==
    IF r.called /\ ~r.result.from_cache
    THEN RecordComputation(h, CallTriple(r.query, r.min_compatibility, r.max_results),
                           HasRoom(c))
    ELSE h

\* the history after a call with a triple returned a result dict
RecordReturn(h, triple, result) ==
    (triple :> (Get(h, triple, {}) \cup {result})) @@ h

\* the history left by a handler whose response is r
ReturnedAfter(h, r) ==
    IF r.called
    THEN RecordReturn(h, CallTriple(r.query, r.min_compatibility, r.max_results), r.result)
    ELSE h

(***************************************************************************)
(* Flask handlers (app.py), each run without interruption                  *)
(***************************************************************************)
\* the default of data.get('min_compatibility', 0.7), in 1/10000
DefaultMinCompatibility == 7000

\* the default of data.get('max_results', 20) of /match
DefaultMaxResults == 20

\* the default of data.get('max_results', 10) of /match/quick
QuickDefaultMaxResults == 10

\* the longest query text /match/quick accepts
MaxQueryLength == 1000

Rejected(op, status, error) ==
    [op |-> op, status |-> status, called |-> FALSE, error |-> error]

\* a handler returns an error response without calling the matcher
Refuse(c, op, status, error) == [resp |-> Rejected(op, status, error), cache |-> c]

\* a handler returns what find_matches found
Answer(op, query, min_compatibility, max_results, found) ==
    [resp |-> [op |-> op, status |-> 200, called |-> TRUE,
               query |-> query, min_compatibility |-> min_compatibility,
               max_results |-> max_results, result |-> found.result],
     cache |-> found.cache]

\* the query dict that /match hands to the matcher
MatchParsedQuery(data, now) ==
    IF "query" \in DOMAIN data THEN parse_query(data["query"], now) ELSE data

\* POST /match from the validation of the parameters on
MatchValidated(c, profs, parsed_query, min_compatibility, max_results) ==
    IF min_compatibility < 0 \/ min_compatibility > 10000
    THEN Refuse(c, "match", 400, "min_compatibility must be a number between 0 and 1")
    ELSE IF max_results < 1 \/ max_results > 100
    THEN Refuse(c, "match", 400, "max_results must be an integer between 1 and 100")
    ELSE Answer("match", parsed_query, min_compatibility, max_results,
                find_matches(c, profs, parsed_query, min_compatibility, max_results))

\* POST /match once the query dict is known
MatchParsed(c, profs, data, parsed_query) ==
    IF "query" \in DOMAIN data /\ "error" \in DOMAIN parsed_query
    THEN Refuse(c, "match", 400, "Query parsing failed: " \o parsed_query["error"])
    ELSE MatchValidated(c, profs, parsed_query,
                        Get(data, "min_compatibility", DefaultMinCompatibility),
                        Get(data, "max_results", DefaultMaxResults))

\* POST /match for the JSON body data: the response and the cache left
MatchResponse(c, profs, data, now) ==
    IF DOMAIN data = {} THEN Refuse(c, "match", 400, "No JSON data provided")
    ELSE MatchParsed(c, profs, data, MatchParsedQuery(data, now))

\* POST /match/quick once the query is parsed
QuickMatchParsed(c, profs, data, parsed_query) ==
    IF "error" \in DOMAIN parsed_query
    THEN Refuse(c, "quick_match", 400, "Query parsing failed: " \o parsed_query["error"])
    ELSE Answer("quick_match", parsed_query,
                Get(data, "min_compatibility", DefaultMinCompatibility),
                Get(data, "max_results", QuickDefaultMaxResults),
                find_matches(c, profs, parsed_query,
                             Get(data, "min_compatibility", DefaultMinCompatibility),
                             Get(data, "max_results", QuickDefaultMaxResults)))

\* POST /match/quick for the JSON body data: the response and the cache left
QuickMatchResponse(c, profs, data, now) ==
    IF "query" \notin DOMAIN data
    THEN Refuse(c, "quick_match", 400, "Missing 'query' field in request")
    ELSE IF Len(Strip(data["query"])) = 0
    THEN Refuse(c, "quick_match", 400, "Query must be a non-empty string")
    ELSE IF Len(data["query"]) > MaxQueryLength
    THEN Refuse(c, "quick_match", 400, "Query too long (max 1000 characters)")
    ELSE QuickMatchParsed(c, profs, data, parse_query(data["query"], now))

\* the score that get_profiles gives one profile, in tenths of a point
ProfileListScore(args, profile) ==
    LET location == Get(args, "location", "")
        instrument == Get(args, "instrument", "")
        genre == Get(args, "genre", "")
        collaboration_intent == Get(args, "collaboration_intent", "")
        instruments == Get(profile, "instruments", << >>)
        genres == Get(profile, "genres", << >>)
    IN  IF location = "" /\ instrument = "" /\ genre = "" /\ collaboration_intent = ""
        THEN 500
        ELSE (IF location # ""
              THEN get_proximity_score(location, Get(profile, "location", "")) * 5 ELSE 0)
           + (IF instrument = "" THEN 0
              ELSE IF \E i \in 1..Len(instruments) : Contains(Lower(instruments[i]), Lower(instrument))
              THEN 250 ELSE 50)
           + (IF genre = "" THEN 0
              ELSE IF \E i \in 1..Len(genres) : Contains(Lower(genres[i]), Lower(genre))
              THEN 150 ELSE 30)
           + (IF collaboration_intent = "" THEN 0
              ELSE IF Contains(Lower(Get(profile, "collaboration_intent", "")),
                               Lower(collaboration_intent))
              THEN 100 ELSE 20)

\* a profile dict after get_profiles has scored it, popped the temporary key
\* and set the reported one
WithListScore(args, profile) ==
    ("compatibility_score" :> ProfileListScore(args, profile)) @@ profile

\* the dicts of matcher.profiles after the two loops of get_profiles
ScoredProfiles(profs, args) == [i \in 1..Len(profs) |-> WithListScore(args, profs[i])]

\* key=lambda x: x['_compatibility_score'] over the scored profiles
ListScoreKey(scored) == [i \in 1..Len(scored) |-> scored[i]["compatibility_score"]]

\* the default of request.args.get('limit', default=50, type=int)
DefaultLimit == 50

\* the scored dicts, sorted and cut
ListedProfiles(scored, args) ==
    SliceTo(SortDescending(scored, ListScoreKey(scored)), Get(args, "limit", DefaultLimit))

\* the JSON body of GET /profiles for the list it reports
ProfilesBody(listed, args) ==
    [op |-> "profiles", status |-> 200, called |-> FALSE,
     profiles |-> listed, total_count |-> Len(listed), filters_applied |-> args]

\* the response of GET /profiles
ProfilesResponse(profs, args) == ProfilesBody(ListedProfiles(ScoredProfiles(profs, args), args), args)

\* the response of GET /profiles/<profile_id>
ProfileResponse(profs, profile_id) ==
    IF \E i \in 1..Len(profs) : profs[i]["id"] = profile_id
    THEN [op |-> "profile", status |-> 200, called |-> FALSE,
          profile |-> profs[SetMin({i \in 1..Len(profs) : profs[i]["id"] = profile_id})]]
    ELSE Rejected("profile", 404, "Profile not found")


(***************************************************************************)
(* Inputs                                                                  *)
(***************************************************************************)
\* profiles as they stand in the profiles file
ProfileCatalog ==
    << [id |-> "p1", instruments |-> << "Guitar", "Bass" >>, genres |-> << "Rock", "Indie" >>,
        location |-> "Williamsburg, Brooklyn", availability |-> "Twice a week",
        musical_influences |-> << "Radiohead" >>, collaboration_intent |-> "band formation"],
       [id |-> "p2", instruments |-> << "Piano" >>, genres |-> << "Jazz", "Blues" >>,
        location |-> "Harlem", availability |-> "flexible schedule",
        musical_influences |-> << "Amy Winehouse" >>, collaboration_intent |-> "session work"],
       [id |-> "p3", instruments |-> << "drums", "Djembe" >>, genres |-> << "funk" >>,
        location |-> "Astoria, Queens", availability |-> "once a week",
        musical_influences |-> << "Bonham" >>, collaboration_intent |-> "Band Formation"],
       [id |-> "p4", instruments |-> << "vocals" >>, location |-> "Williamsburg, Brooklyn",
        musical_influences |-> << "Amy Winehouse" >>],
       [id |-> "p5", instruments |-> << "Oud" >>, genres |-> << >>, location |-> "",
        availability |-> "weekends only", collaboration_intent |-> "cover band"] >>

\* the number of profiles in the profiles file is at most this
MaxProfiles == 3

\* the session serves at most this many requests (one clock tick each)
MaxClock == 2

\* the worker threads of the server
Workers == {"w1", "w2"}

\* JSON bodies posted to /match
MatchBodies ==
    { EmptyDict,
      [instruments |-> << "Drums" >>, min_compatibility |-> 6000],
      [instruments |-> << "Drums" >>, min_compatibility |-> 15000],
      [instruments |-> << "vocals" >>, musical_influences |-> << "Amy Winehouse" >>,
       min_compatibility |-> 5000, max_results |-> 1],
      [instruments |-> << "vocals" >>, max_results |-> 0],
      [query |-> "pianist"] }

\* JSON bodies posted to /match/quick
QuickBodies ==
    { [max_results |-> 5],
      [query |-> "  "],
      [query |-> "drummer in brooklyn"],
      [query |-> "drummer in brooklyn", min_compatibility |-> 15000],
      [query |-> "drummer in brooklyn", min_compatibility |-> 3000, max_results |-> 0 - 1] }

\* query strings of GET /profiles
ProfileFilters ==
    { EmptyDict,
      [instrument |-> "guitar", limit |-> 2],
      [location |-> "brooklyn", genre |-> "jazz"] }

ProfileIds == {"p1", "nonexistent"}

(***************************************************************************)
(* The service: requests handled one at a time                             *)
(***************************************************************************)
Idle == [t \in Workers |-> [pc |-> "idle"]]

Init ==
    /\ \E n \in 0..MaxProfiles : profiles = LoadProfiles(SubSeq(ProfileCatalog, 1, n))
    /\ cache = EmptyDict
    /\ clock = 0
    /\ resp = NoResponse
    /\ input = EmptyDict
    /\ threads = Idle
    /\ computed = EmptyDict
    /\ started = 0
    /\ returned = EmptyDict

\* a matching handler returns: its response, the cache find_matches left
Serve(out) ==
    /\ resp' = out.resp
    /\ cache' = out.cache
    /\ computed' = ComputedAfter(computed, cache, out.resp)
    /\ returned' = ReturnedAfter(returned, out.resp)

\* POST /match
Match(data) ==
    /\ clock < MaxClock
    /\ Serve(MatchResponse(cache, profiles, data, clock))
    /\ clock' = clock + 1
    /\ UNCHANGED << profiles, input, threads, started >>

\* POST /match/quick
QuickMatch(data) ==
    /\ clock < MaxClock
    /\ Serve(QuickMatchResponse(cache, profiles, data, clock))
    /\ clock' = clock + 1
    /\ UNCHANGED << profiles, input, threads, started >>

\* get_profiles returns: the dicts of matcher.profiles now carry their scores
ServeProfiles(scored, args) ==
    /\ resp' = ProfilesBody(ListedProfiles(scored, args), args)
    /\ profiles' = scored

\* GET /profiles
GetProfiles(args) ==
    /\ clock < MaxClock
    /\ ServeProfiles(ScoredProfiles(profiles, args), args)
    /\ clock' = clock + 1
    /\ UNCHANGED << cache, input, threads, computed, started, returned >>

\* GET /profiles/<profile_id>
GetProfile(profile_id) ==
    /\ clock < MaxClock
    /\ resp' = ProfileResponse(profiles, profile_id)
    /\ clock' = clock + 1
    /\ UNCHANGED << profiles, cache, input, threads, computed, started, returned >>

Next ==
    \/ \E data \in MatchBodies : Match(data)
    \/ \E data \in QuickBodies : QuickMatch(data)
    \/ \E args \in ProfileFilters : GetProfiles(args)
    \/ \E profile_id \in ProfileIds : GetProfile(profile_id)

Spec == Init /\ [][Next]_vars


(***************************************************************************)
(* find_matches as a function of its arguments: one call on a fresh        *)
(* matcher, then a repeat of the same call                                 *)
(***************************************************************************)
PipelineQueries ==
    { EmptyDict,
      [instruments |-> << "Drums" >>],
      [instruments |-> << "vocals" >>, location |-> "brooklyn",
       musical_influences |-> << "Amy Winehouse" >>],
      [instruments |-> << "Sitar" >>, availability |-> "twice a week",
       collaboration_intent |-> "rock band"],
      [musical_influences |-> << "jazz" >>, location |-> "Staten Island"] }

\* values of min_compatibility, in 1/10000
Thresholds == {0, 5000, 6000, 7000}

\* values of max_results
Caps == {1, 2, 20}

\* matcher.find_matches(query, min_compatibility, max_results), called directly
Invoke(query, min_compatibility, max_results) ==
    Serve(Answer("find_matches", query, min_compatibility, max_results,
                 find_matches(cache, profiles, query, min_compatibility, max_results)))

InitPipeline ==
    /\ \E n \in 0..MaxProfiles : profiles = LoadProfiles(SubSeq(ProfileCatalog, 1, n))
    /\ cache = EmptyDict
    /\ clock = 0
    /\ resp = NoResponse
    /\ input \in [query : PipelineQueries, min_compatibility : Thresholds, max_results : Caps]
    /\ threads = Idle
    /\ computed = EmptyDict
    /\ started = 0
    /\ returned = EmptyDict

CallFindMatches ==
    /\ Invoke(input.query, input.min_compatibility, input.max_results)
    /\ UNCHANGED << profiles, clock, input, threads, started >>

NextPipeline == CallFindMatches

SpecPipeline == InitPipeline /\ [][NextPipeline]_vars


(***************************************************************************)
(* A sequence of find_matches calls on one matcher: calls with one         *)
(* observed triple, among calls with triples that are new each time        *)
(***************************************************************************)
\* the i-th triple of the sweep: one query under every cap of 1..50, threshold
\* after threshold
SweepTriple(i) ==
    [query |-> [instruments |-> << "Drums" >>],
     min_compatibility |-> ((i - 1) \div 50) * 1000,
     max_results |-> ((i - 1) % 50) + 1]

\* triples that are not of the sweep
ObservedTriples ==
    { [query |-> [instruments |-> << "vocals" >>, musical_influences |-> << "Amy Winehouse" >>],
       min_compatibility |-> 5000, max_results |-> 1],
      [query |-> [instruments |-> << "Drums" >>], min_compatibility |-> 1000, max_results |-> 60] }

\* the sweep makes at most this many calls
MaxCalls == 102

InitCalls ==
    /\ profiles = LoadProfiles(SubSeq(ProfileCatalog, 1, MaxProfiles))
    /\ cache = EmptyDict
    /\ clock = 0
    /\ resp = NoResponse
    /\ input \in ObservedTriples
    /\ threads = Idle
    /\ computed = EmptyDict
    /\ started = 0
    /\ returned = EmptyDict

\* a call with the observed triple
CallObserved ==
    /\ Invoke(input.query, input.min_compatibility, input.max_results)
    /\ UNCHANGED << profiles, clock, input, threads, started >>

\* a call with the given triple of the sweep
CallSweep(triple) ==
    /\ Invoke(triple.query, triple.min_compatibility, triple.max_results)
    /\ clock' = clock + 1
    /\ UNCHANGED << profiles, input, threads, started >>

\* a call with a triple that no call had before
CallFresh ==
    /\ clock < MaxCalls
    /\ CallSweep(SweepTriple(clock + 1))

NextCalls ==
    \/ CallObserved
    \/ CallFresh

SpecCalls == InitCalls /\ [][NextCalls]_vars


(***************************************************************************)
(* find_matches under one threshold after another: a query and a cap are   *)
(* fixed, the calls come in any order and may repeat                       *)
(***************************************************************************)
\* the thresholds of the calls, in 1/10000
SweptThresholds == {0, 5000, 7000, 10000}

\* the caps of the calls
SweptCaps == {1, 20}

\* the calls made on one matcher are at most this many
MaxSweep == 4

InitThresholds ==
    /\ \E n \in 0..MaxProfiles : profiles = LoadProfiles(SubSeq(ProfileCatalog, 1, n))
    /\ cache = EmptyDict
    /\ clock = 0
    /\ resp = NoResponse
    /\ input \in [query : PipelineQueries, max_results : SweptCaps]
    /\ threads = Idle
    /\ computed = EmptyDict
    /\ started = 0
    /\ returned = EmptyDict

\* a call with the fixed query and cap under one threshold
CallAtThreshold(min_compatibility) ==
    /\ clock < MaxSweep
    /\ Invoke(input.query, min_compatibility, input.max_results)
    /\ clock' = clock + 1
    /\ UNCHANGED << profiles, input, threads, started >>

NextThresholds == \E min_compatibility \in SweptThresholds : CallAtThreshold(min_compatibility)

SpecThresholds == InitThresholds /\ [][NextThresholds]_vars


(***************************************************************************)
(* find_matches run again after the cache was emptied: a query and a       *)
(* threshold are fixed, the calls differ in their caps                     *)
(***************************************************************************)
InitRerun ==
    /\ \E n \in 0..MaxProfiles : profiles = LoadProfiles(SubSeq(ProfileCatalog, 1, n))
    /\ cache = EmptyDict
    /\ clock = 0
    /\ resp = NoResponse
    /\ input \in [query : PipelineQueries, min_compatibility : Thresholds]
    /\ threads = Idle
    /\ computed = EmptyDict
    /\ started = 0
    /\ returned = EmptyDict

\* a call with the fixed query and threshold under one cap
CallWithCap(max_results) ==
    /\ clock < MaxSweep
    /\ Invoke(input.query, input.min_compatibility, max_results)
    /\ clock' = clock + 1
    /\ UNCHANGED << profiles, input, threads, started >>

\* self._query_cache = {}: the cache is emptied between two calls
ClearCache ==
    /\ clock < MaxSweep
    /\ cache # EmptyDict
    /\ cache' = EmptyDict
    /\ UNCHANGED << profiles, clock, resp, input, threads, computed, started, returned >>

NextRerun ==
    \/ \E max_results \in SweptCaps : CallWithCap(max_results)
    \/ ClearCache

SpecRerun == InitRerun /\ [][NextRerun]_vars


(***************************************************************************)
(* calculate_compatibility_score as a function of a query and a profile    *)
(***************************************************************************)
\* queries with fields absent, empty and present
ScoreQueries ==
    { EmptyDict,
      [instruments |-> << >>, musical_influences |-> << >>, location |-> "",
       availability |-> "", collaboration_intent |-> ""],
      [instruments |-> << "Drums" >>],
      [instruments |-> << "Guitar" >>,
       musical_influences |-> << "Radiohead", "Bonham", "Amy Winehouse" >>],
      [musical_influences |-> << "jazz" >>],
      [musical_influences |-> << "Rock", "radiohead", "Fela Kuti", "bonham", "Nina Simone" >>,
       collaboration_intent |-> "Band Formation"],
      [location |-> "Harlem"],
      [location |-> "brooklyn", availability |-> "flexible"],
      [location |-> "nowhere", instruments |-> << "Sitar" >>],
      [availability |-> "Twice a week", collaboration_intent |-> "band formation"],
      [availability |-> "weekend evenings", collaboration_intent |-> "jam"],
      [instruments |-> << "guitar" >>,
       musical_influences |-> << "rock", "Radiohead", "Bonham", "Nina Simone" >>,
       location |-> "Williamsburg, Brooklyn", availability |-> "twice a week",
       collaboration_intent |-> "Band formation"] }

\* profiles with fields absent, empty and present
ScoreCatalog ==
    ProfileCatalog \o
    << [id |-> "p6"],
       [id |-> "p7", instruments |-> << >>, genres |-> << >>, location |-> "",
        availability |-> "", musical_influences |-> << >>, collaboration_intent |-> ""],
       [id |-> "p8", instruments |-> << "Guitar" >>, genres |-> << "Rock" >>,
        location |-> "Williamsburg, Brooklyn", availability |-> "Twice a week",
        musical_influences |-> << "Radiohead", "Bonham", "Amy Winehouse", "Nina Simone" >>,
        collaboration_intent |-> "band formation"] >>

InitScore ==
    /\ profiles = LoadProfiles(ScoreCatalog)
    /\ cache = EmptyDict
    /\ clock = 0
    /\ resp = NoResponse
    /\ input \in [query : ScoreQueries, profile : 1..Len(ScoreCatalog)]
    /\ threads = Idle
    /\ computed = EmptyDict
    /\ started = 0
    /\ returned = EmptyDict

\* the pair calculate_compatibility_score returns, as a response
ScoreReturned(query, profile, scored) ==
    [op |-> "score", status |-> 200, called |-> FALSE, query |-> query,
     profile |-> profile["id"], total_score |-> scored.total_score,
     detailed_scores |-> scored.detailed_scores]

\* matcher.calculate_compatibility_score(query, profile), called directly
CalculateScore ==
    /\ resp' = ScoreReturned(input.query, profiles[input.profile],
                             calculate_compatibility_score(input.query, profiles[input.profile]))
    /\ UNCHANGED << profiles, cache, clock, input, threads, computed, started, returned >>

NextScore == CalculateScore

SpecScore == InitScore /\ [][NextScore]_vars


(***************************************************************************)
(* get_proximity_score as a function of two location texts                 *)
(***************************************************************************)
\* the names of the registered neighborhoods
NeighborhoodNames == {neighborhoods[n].name : n \in 1..Len(neighborhoods)}

\* texts that name a borough or the city, and texts that name no place
BoroughTexts ==
    { "manhattan", "brooklyn", "queens", "bronx", "staten island",
      "Manhattan, NY", "brooklyn, ny", "Queens NY", "the bronx", "Staten Island, NY",
      "nyc", "mars", "", "   " }

\* texts that name a neighborhood, one way or another
NeighborhoodTexts == { "Harlem", "park slope", "Astoria", "St. George", "les", "Riverdale, Bronx" }

\* the pairs of texts of the calls: a borough text or one of the neighborhood
\* texts on one side
LocationPairs ==
    ((BoroughTexts \cup NeighborhoodTexts) \X (NeighborhoodNames \cup BoroughTexts))
        \cup (NeighborhoodNames \X (BoroughTexts \cup NeighborhoodTexts))

InitLocation ==
    /\ profiles = << >>
    /\ cache = EmptyDict
    /\ clock = 0
    /\ resp = NoResponse
    /\ \E pair \in LocationPairs : input = [location1 |-> pair[1], location2 |-> pair[2]]
    /\ threads = Idle
    /\ computed = EmptyDict
    /\ started = 0
    /\ returned = EmptyDict

\* the score get_proximity_score returns, with the two resolutions it was
\* computed from, as a response
ProximityReturned(location1, location2, parsed1, parsed2) ==
    [op |-> "proximity", status |-> 200, called |-> FALSE,
     location1 |-> location1, location2 |-> location2,
     parsed1 |-> parsed1, parsed2 |-> parsed2,
     score |-> ParsedProximity(parsed1, parsed2)]

\* location_intelligence.get_proximity_score(location1, location2), called directly
GetProximityScore ==
    /\ resp' = ProximityReturned(input.location1, input.location2,
                                 parse_location(input.location1),
                                 parse_location(input.location2))
    /\ UNCHANGED << profiles, cache, clock, input, threads, computed, started, returned >>

NextLocation == GetProximityScore

SpecLocation == InitLocation /\ [][NextLocation]_vars


(***************************************************************************)
(* get_nearby_neighborhoods as a function of a location text and a         *)
(* minimum score                                                           *)
(***************************************************************************)
\* the minimum scores of the calls (30 is the default)
MinScores == {0, 30, 75, 100, 101}

InitNearby ==
    /\ profiles = << >>
    /\ cache = EmptyDict
    /\ clock = 0
    /\ resp = NoResponse
    /\ input \in [location : NeighborhoodNames \cup BoroughTexts \cup NeighborhoodTexts,
                   min_score : MinScores]
    /\ threads = Idle
    /\ computed = EmptyDict
    /\ started = 0
    /\ returned = EmptyDict

\* the list get_nearby_neighborhoods returns, as a response
NearbyReturned(location, min_score, nearby) ==
    [op |-> "nearby", status |-> 200, called |-> FALSE,
     location |-> location, min_score |-> min_score, nearby |-> nearby]

\* location_intelligence.get_nearby_neighborhoods(location, min_score), called directly
GetNearbyNeighborhoods ==
    /\ resp' = NearbyReturned(input.location, input.min_score,
                              get_nearby_neighborhoods(input.location, input.min_score))
    /\ UNCHANGED << profiles, cache, clock, input, threads, computed, started, returned >>

NextNearby == GetNearbyNeighborhoods

SpecNearby == InitNearby /\ [][NextNearby]_vars


(***************************************************************************)
(* NYCLocationIntelligence built over a proximity matrix as authored, with *)
(* or without an omission, and then asked for scores                       *)
(***************************************************************************)
\* a matrix whose author left out the row of a zone
WithoutRow(matrix, zone) == [z \in DOMAIN matrix \ {zone} |-> matrix[z]]

\* a matrix whose author left out the column of a zone in every row
WithoutColumn(matrix, zone) ==
    [z \in DOMAIN matrix |-> [c \in DOMAIN matrix[z] \ {zone} |-> matrix[z][c]]]

\* the matrices _build_proximity_matrix is taken to return
AuthoredMatrices ==
    {proximity_matrix}
        \cup {WithoutRow(proximity_matrix, z) : z \in DOMAIN proximity_matrix}
        \cup {WithoutColumn(proximity_matrix, z) : z \in DOMAIN proximity_matrix}

\* the pairs of texts scored on the instance
TablePairs ==
    { << "Harlem", "Stapleton" >>, << "Stapleton", "Harlem" >>,
      << "brooklyn, ny", "Astoria" >>, << "soho", "Riverdale" >> }

InitTables ==
    /\ profiles = << >>
    /\ cache = EmptyDict
    /\ clock = 0
    /\ resp = NoResponse
    /\ \E matrix \in AuthoredMatrices : \E pair \in TablePairs :
           input = [matrix |-> matrix, location1 |-> pair[1], location2 |-> pair[2]]
    /\ threads = Idle
    /\ computed = EmptyDict
    /\ started = 0
    /\ returned = EmptyDict

\* NYCLocationIntelligence(): the four tables are built and stored, nothing
\* is compared
Construct ==
    /\ resp = NoResponse
    /\ resp' = [op |-> "constructed", status |-> 200, called |-> FALSE]
    /\ UNCHANGED << profiles, cache, clock, input, threads, computed, started, returned >>

\* get_proximity_score on the constructed instance
ScoreOnInstance ==
    /\ resp # NoResponse
    /\ resp' = [op |-> "instance_proximity", status |-> 200, called |-> FALSE,
                score |-> ParsedProximityIn(input.matrix, parse_location(input.location1),
                                            parse_location(input.location2))]
    /\ UNCHANGED << profiles, cache, clock, input, threads, computed, started, returned >>

NextTables ==
    \/ Construct
    \/ ScoreOnInstance

SpecTables == InitTables /\ [][NextTables]_vars


(***************************************************************************)
(* The match dict of the scoring loop as a function of a query and a       *)
(* profile                                                                 *)
(***************************************************************************)
InitExplain ==
    /\ profiles = LoadProfiles(ScoreCatalog)
    /\ cache = EmptyDict
    /\ clock = 0
    /\ resp = NoResponse
    /\ input \in [query : ScoreQueries \cup PipelineQueries, profile : 1..Len(ScoreCatalog)]
    /\ threads = Idle
    /\ computed = EmptyDict
    /\ started = 0
    /\ returned = EmptyDict

\* the match dict, as a response
MatchBuilt(query, match) ==
    [op |-> "match_dict", status |-> 200, called |-> FALSE, query |-> query, match |-> match]

\* one pass of the scoring loop of find_matches for a profile, whatever the
\* threshold
BuildMatch ==
    /\ resp' = MatchBuilt(input.query,
                          MatchOf(input.query, profiles[input.profile],
                                  calculate_compatibility_score(input.query,
                                                                profiles[input.profile])))
    /\ UNCHANGED << profiles, cache, clock, input, threads, computed, started, returned >>

NextExplain == BuildMatch

SpecExplain == InitExplain /\ [][NextExplain]_vars


(***************************************************************************)
(* find_matches on the worker threads of the server: a thread runs from    *)
(* one access of the shared cache to the next without interruption         *)
(***************************************************************************)
\* the worker threads begin at most this many invocations
MaxBurst == 3

\* the numbers of requests served one at a time before requests arrive together
BurstStart == {0, 1, CacheLimit - 1, CacheLimit}

\* the triples a thread may be called with: the newest one in the cache and
\* the next two
NearTriples(c) == {i \in Cardinality(DOMAIN c)..(Cardinality(DOMAIN c) + 2) : i >= 1}

\* a request served while no other is in progress
Warm ==
    /\ started = 0
    /\ HasRoom(cache)
    /\ CallSweep(SweepTriple(Cardinality(DOMAIN cache) + 1))

\* a thread enters find_matches and computes cache_key_full
Entered(t, triple) ==
    threads' = [threads EXCEPT ![t] =
                   [pc |-> "lookup", query |-> triple.query,
                    min_compatibility |-> triple.min_compatibility,
                    max_results |-> triple.max_results,
                    key |-> CacheKey(triple.query, triple.min_compatibility,
                                     triple.max_results)]]

Begin(t, i) ==
    /\ threads[t].pc = "idle"
    /\ started < MaxBurst
    /\ IF started = 0 THEN Cardinality(DOMAIN cache) \in BurstStart ELSE TRUE
    /\ Entered(t, SweepTriple(i))
    /\ started' = started + 1
    /\ UNCHANGED << profiles, cache, clock, resp, input, computed, returned >>

\* the thread found its key in the cache and copied the entry
Hit(t, call) ==
    /\ threads' = [threads EXCEPT ![t] =
                      [call EXCEPT !.pc = "done"] @@ [result |-> CachedResult(cache[call.key])]]
    /\ UNCHANGED computed

\* the thread did not find its key and built the result dict
Missed(t, call) ==
    /\ threads' = [threads EXCEPT ![t] =
                      [call EXCEPT !.pc = "check"]
                      @@ [result |-> ComputeResult(profiles, call.query,
                                                   call.min_compatibility, call.max_results)]]
    /\ computed' = RecordComputation(computed,
                       CallTriple(call.query, call.min_compatibility, call.max_results),
                       HasRoom(cache))

\* the cache check of a thread and, when it misses, the computation, which
\* reads no shared state but the profiles.  No entry is ever removed or
\* replaced by a different record type, so the membership test of line 353
\* and the read of line 354 see the same entry and are one step here.
LookedUp(t, call) ==
    IF call.key \in DOMAIN cache THEN Hit(t, call) ELSE Missed(t, call)

Lookup(t) ==
    /\ threads[t].pc = "lookup"
    /\ LookedUp(t, threads[t])
    /\ UNCHANGED << profiles, cache, clock, resp, input, started, returned >>

\* the size check of a thread
CheckSize(t) ==
    /\ threads[t].pc = "check"
    /\ threads' = [threads EXCEPT ![t].pc = IF HasRoom(cache) THEN "insert" ELSE "done"]
    /\ UNCHANGED << profiles, cache, clock, resp, input, computed, started, returned >>

\* the store of a thread
Insert(t) ==
    /\ threads[t].pc = "insert"
    /\ cache' = Inserted(cache, threads[t].key, threads[t].result)
    /\ threads' = [threads EXCEPT ![t].pc = "done"]
    /\ UNCHANGED << profiles, clock, resp, input, computed, started, returned >>

\* what a thread returns, as a response
Returned(call) ==
    [op |-> "find_matches", status |-> 200, called |-> TRUE,
     query |-> call.query, min_compatibility |-> call.min_compatibility,
     max_results |-> call.max_results, result |-> call.result]

\* a thread returns from find_matches
Return(t) ==
    /\ threads[t].pc = "done"
    /\ resp' = Returned(threads[t])
    /\ returned' = ReturnedAfter(returned, Returned(threads[t]))
    /\ threads' = [threads EXCEPT ![t] = [pc |-> "idle"]]
    /\ UNCHANGED << profiles, cache, clock, input, computed, started >>

NextConc ==
    \/ Warm
    \/ \E t \in Workers : \E i \in NearTriples(cache) : Begin(t, i)
    \/ \E t \in Workers : Lookup(t)
    \/ \E t \in Workers : CheckSize(t)
    \/ \E t \in Workers : Insert(t)
    \/ \E t \in Workers : Return(t)

SpecConc == Init /\ [][NextConc]_vars

(***************************************************************************)
(* get_profiles on the worker threads of the server.  matcher.profiles     *)
(* .copy() copies the list, not the dicts: each thread sorts a list of its *)
(* own, and all threads write the same profile dicts.  A thread runs from  *)
(* one access of a shared dict to the next without interruption.           *)
(***************************************************************************)
\* the worker threads begin at most this many GET /profiles requests
MaxListings == 2

\* the server holds this many profiles
ListedCount == 2

InitListing ==
    /\ profiles = LoadProfiles(SubSeq(ProfileCatalog, 1, ListedCount))
    /\ cache = EmptyDict
    /\ clock = 0
    /\ resp = NoResponse
    /\ input = EmptyDict
    /\ threads = Idle
    /\ computed = EmptyDict
    /\ started = 0
    /\ returned = EmptyDict

\* profile.pop(key, default): the dict it leaves
Popped(profile, key) == [k \in DOMAIN profile \ {key} |-> profile[k]]

\* profiles = matcher.profiles.copy(): the thread's own list holds the shared
\* dicts, named here by their positions in matcher.profiles
BeginListing(t, args) ==
    /\ threads[t].pc = "idle"
    /\ started < MaxListings
    /\ threads' = [threads EXCEPT ![t] =
                      [pc |-> "score", args |-> args, i |-> 1, keys |-> << >>,
                       order |-> [p \in 1..Len(profiles) |-> p]]]
    /\ started' = started + 1
    /\ UNCHANGED << profiles, cache, clock, resp, input, computed, returned >>

\* the position after the i-th of n turns of a loop
Advance(call, n, then) ==
    IF call.i < n THEN [call EXCEPT !.i = call.i + 1]
                  ELSE [call EXCEPT !.i = 1, !.pc = then]

\* one turn of the scoring loop: profile['_compatibility_score'] = score
ScoreOne(t) ==
    /\ threads[t].pc = "score"
    /\ profiles' = [profiles EXCEPT ![threads[t].order[threads[t].i]] =
                       ("_compatibility_score" :> ProfileListScore(threads[t].args, @)) @@ @]
    /\ threads' = [threads EXCEPT ![t] = Advance(@, Len(profiles), "keys")]
    /\ UNCHANGED << cache, clock, resp, input, computed, started, returned >>

\* the thread after profiles.sort has read the key of one more dict; after the
\* last it orders its list by the keys it read
KeyRead(call, key) ==
    IF call.i < Len(call.order)
    THEN [call EXCEPT !.i = call.i + 1, !.keys = Append(call.keys, key)]
    ELSE [call EXCEPT !.i = 1, !.pc = "pop", !.keys = << >>,
                      !.order = SortDescending(call.order, Append(call.keys, key))]

\* profiles.sort calls the key function on one dict
ReadKey(t) ==
    /\ threads[t].pc = "keys"
    /\ threads' = [threads EXCEPT ![t] =
                      KeyRead(@, Get(profiles[threads[t].order[threads[t].i]],
                                     "_compatibility_score", 0))]
    /\ UNCHANGED << profiles, cache, clock, resp, input, computed, started, returned >>

\* score = profile.pop('_compatibility_score', 0)
PopScore(t) ==
    /\ threads[t].pc = "pop"
    /\ threads' = [threads EXCEPT ![t] =
                      [pc |-> "set", args |-> @.args, i |-> @.i, keys |-> @.keys,
                       order |-> @.order,
                       score |-> Get(profiles[threads[t].order[threads[t].i]],
                                     "_compatibility_score", 0)]]
    /\ profiles' = [profiles EXCEPT ![threads[t].order[threads[t].i]] =
                       Popped(@, "_compatibility_score")]
    /\ UNCHANGED << cache, clock, resp, input, computed, started, returned >>

\* profile['compatibility_score'] = round(score, 1); the scores are multiples
\* of a tenth
SetScore(t) ==
    /\ threads[t].pc = "set"
    /\ profiles' = [profiles EXCEPT ![threads[t].order[threads[t].i]] =
                       ("compatibility_score" :> threads[t].score) @@ @]
    /\ threads' = [threads EXCEPT ![t] =
                      Advance([pc |-> "pop", args |-> @.args, i |-> @.i, keys |-> @.keys,
                               order |-> @.order],
                              Len(profiles), "respond")]
    /\ UNCHANGED << cache, clock, resp, input, computed, started, returned >>

\* the thread's list of dicts as they are now
ListOf(profs, order) == [r \in 1..Len(order) |-> profs[order[r]]]

\* profiles[:limit] and jsonify, which serialises the dicts as they are now
Respond(t) ==
    /\ threads[t].pc = "respond"
    /\ resp' = ProfilesBody(SliceTo(ListOf(profiles, threads[t].order),
                                    Get(threads[t].args, "limit", DefaultLimit)),
                            threads[t].args)
    /\ threads' = [threads EXCEPT ![t] = [pc |-> "idle"]]
    /\ UNCHANGED << profiles, cache, clock, input, computed, started, returned >>

NextListing ==
    \/ \E t \in Workers : \E args \in ProfileFilters : BeginListing(t, args)
    \/ \E t \in Workers : ScoreOne(t)
    \/ \E t \in Workers : ReadKey(t)
    \/ \E t \in Workers : PopScore(t)
    \/ \E t \in Workers : SetScore(t)
    \/ \E t \in Workers : Respond(t)

SpecListing == InitListing /\ [][NextListing]_vars

(***************************************************************************)
(* Properties of the pre-filter and the threshold                          *)
(***************************************************************************)
\* the last response is the result of a find_matches call that was computed, not cached
Computed ==
    /\ resp.op \in {"find_matches", "match", "quick_match"}
    /\ resp.called
    /\ ~resp.result.from_cache

\* the list find_matches would return if every loaded profile were a candidate
UnfilteredMatches ==
    RankedMatches(profiles, resp.query, resp.min_compatibility, resp.max_results)

\* C1: the matches of a computed find_matches call are the matches obtained by
\* scoring every loaded profile without the pre-filter and applying the same
\* threshold, sort and cap.
C1_PreFilterKeepsEveryMatch ==
    Computed => resp.result.matches = UnfilteredMatches

\* C2: a profile that the pre-filter excludes for a query with instruments has
\* instrument score 0.0.
C2_ExcludedScoresZero ==
    (Computed /\ Len(Get(resp.query, "instruments", << >>)) > 0) =>
        \A i \in 1..Len(profiles) :
            ~PassesPreFilter(resp.query["instruments"], profiles[i]) =>
                score_instrument_compatibility(resp.query["instruments"], profiles[i]) = 0

\* the overall score of a returned match, recomputed from its factor scores
MatchTotal(match) == TotalScore(match.detailed_scores)

\* the candidates of the last call whose overall score is at least its threshold
Survivors ==
    LET candidates == CandidateProfiles(profiles, resp.query)
        reaches == [i \in 1..Len(candidates) |->
                       TotalScore(DetailedScores(resp.query, candidates[i])) >= resp.min_compatibility]
    IN  Filter(candidates, reaches)

\* C10: every match of a computed call has an overall score >= min_compatibility,
\* and when fewer than max_results matches are returned every candidate whose
\* overall score is >= min_compatibility (equality included) is among them.
C10_ThresholdKeepsExactlySurvivors ==
    Computed =>
        /\ \A i \in 1..Len(resp.result.matches) :
               MatchTotal(resp.result.matches[i]) >= resp.min_compatibility
        /\ Len(resp.result.matches) < resp.max_results =>
               \A j \in 1..Len(Survivors) :
                   \E i \in 1..Len(resp.result.matches) :
                       resp.result.matches[i].profile = CleanProfile(Survivors[j])

\* a computed call returned, below its cap, a match whose score equals the threshold
C10_Witness ==
    /\ Computed
    /\ Len(resp.result.matches) < resp.max_results
    /\ \E i \in 1..Len(resp.result.matches) :
           MatchTotal(resp.result.matches[i]) = resp.min_compatibility

(***************************************************************************)
(* Properties of the cache in a sequence of calls                          *)
(***************************************************************************)
\* the last call was answered from the cache
AnsweredFromCache == resp.op = "find_matches" /\ resp.result.from_cache

\* the triple of the last call
LastTriple == CallTriple(resp.query, resp.min_compatibility, resp.max_results)

\* what a computation of the last call's triple returns without the cache
FreshResult ==
    ComputeResult(profiles, resp.query, resp.min_compatibility, resp.max_results)

\* C3: a call answered from the cache returns the matches and the total_found
\* that a fresh computation of its own triple returns, and a call is answered
\* from the cache only if a call with the same query, threshold and cap
\* computed the result before.
C3_CacheHitEqualsFreshComputation ==
    AnsweredFromCache =>
        /\ resp.result.matches = FreshResult.matches
        /\ resp.result.total_found = FreshResult.total_found
        /\ LastTriple \in DOMAIN computed

\* a call was answered from the cache, with matches, after calls with the same
\* query under another threshold and under another cap had been computed
C3_Witness ==
    /\ AnsweredFromCache
    /\ Len(resp.result.matches) > 0
    /\ \E t \in DOMAIN computed : t[1] = resp.query /\ t[2] # resp.min_compatibility
    /\ \E t \in DOMAIN computed :
           t[1] = resp.query /\ t[2] = resp.min_compatibility /\ t[3] # resp.max_results

\* the cache holds an entry for the triple
Cached(triple) == CacheKey(triple[1], triple[2], triple[3]) \in DOMAIN cache

\* C4 as stated: every triple that was computed has a cache entry and was not
\* computed a second time, however many other triples were computed.
C4_FirstComputationIsAlwaysCached ==
    \A t \in DOMAIN computed : Cached(t) /\ ~computed[t].again

\* C4: every triple whose first computation found fewer than 100 entries in the
\* cache has a cache entry from then on and is never computed a second time
\* (each later call with it is served from the cache), however many other
\* triples were computed in between.
C4_FirstComputationIsCachedWhenRoom ==
    \A t \in DOMAIN computed : computed[t].room => Cached(t) /\ ~computed[t].again

\* the triple computed first of all is served from the cache after at least
\* CacheLimit other triples were computed
C4_Witness ==
    /\ AnsweredFromCache
    /\ computed[LastTriple].first
    /\ Cardinality(DOMAIN computed) > CacheLimit

(***************************************************************************)
(* Properties of the cache under concurrent calls                          *)
(***************************************************************************)
\* C5: the cache never holds more than 100 entries.
C5_CacheNeverExceedsLimit == Cardinality(DOMAIN cache) <= CacheLimit

\* the invocation of a thread has its result in hand, copied from the cache
ServedFromCache(t) == threads[t].pc = "done" /\ threads[t].result.from_cache

\* C6: every result that a thread is served from the cache is the complete
\* record (matches thresholded, ranked and truncated, total_found their number)
\* of a computation for the thread's own triple, which some call has made.
C6_ServedEntriesAreComplete ==
    \A t \in Workers :
        ServedFromCache(t) =>
            /\ threads[t].result =
                   CachedResult(ComputeResult(profiles, threads[t].query,
                                    threads[t].min_compatibility, threads[t].max_results))
            /\ threads[t].result.total_found = Len(threads[t].result.matches)
            /\ CallTriple(threads[t].query, threads[t].min_compatibility,
                          threads[t].max_results) \in DOMAIN computed

\* a thread is served matches from the cache for a triple that two calls had
\* both missed and computed
C6_Witness ==
    \E t \in Workers :
        /\ ServedFromCache(t)
        /\ Len(threads[t].result.matches) > 0
        /\ computed[CallTriple(threads[t].query, threads[t].min_compatibility,
                               threads[t].max_results)].again

(***************************************************************************)
(* Properties of the handlers                                              *)
(***************************************************************************)
\* C7: the loaded profiles are never changed: they are the profiles of the
\* file with their precomputed features.
C7_ProfilesNeverChange ==
    profiles = LoadProfiles(SubSeq(ProfileCatalog, 1, Len(profiles)))

\* C8: every request that called find_matches passed it a min_compatibility in
\* [0, 1] and a max_results in 1..100.
C8_MatcherCalledInRange ==
    (resp.op \in {"match", "quick_match"} /\ resp.called) =>
        /\ resp.min_compatibility \in 0..10000
        /\ resp.max_results \in 1..100

(***************************************************************************)
(* Properties of the scores                                                *)
(***************************************************************************)
\* C9: the overall score and the six factor scores returned by
\* calculate_compatibility_score lie in [0, 1], and the overall score is the sum
\* of the factor scores weighted 0.30, 0.20, 0.15, 0.15, 0.15 and 0.05, weights
\* that sum to 1.
C9_ScoresInUnitInterval ==
    resp.op = "score" =>
        /\ DOMAIN resp.detailed_scores = Range(Factors)
        /\ \A f \in Range(Factors) : resp.detailed_scores[f] \in 0..100
        /\ resp.total_score \in 0..10000
        /\ resp.total_score =
               30 * resp.detailed_scores.instruments + 20 * resp.detailed_scores.genres
               + 15 * resp.detailed_scores.location + 15 * resp.detailed_scores.availability
               + 15 * resp.detailed_scores.influences
               + 5 * resp.detailed_scores.collaboration_intent
        /\ 30 + 20 + 15 + 15 + 15 + 5 = 100

\* a pair was scored 1.0 overall, three of its influences being shared
C9_Witness ==
    /\ resp.op = "score"
    /\ resp.total_score = 10000
    /\ Cardinality(LowerSet(resp.query["musical_influences"])
                   \cap Range(profiles[input.profile]["_influence_keys"])) >= 3


\* C11: for a fixed query, profile set and cap, of two calls of find_matches the
\* one with the higher threshold never reports a larger total_found, whichever
\* call came first and whether either was answered from the cache
C11_RaisingThresholdNeverFindsMore ==
    \A a \in DOMAIN returned : \A b \in DOMAIN returned :
        (a[1] = b[1] /\ a[3] = b[3] /\ a[2] <= b[2])
            => \A ra \in returned[a] : \A rb \in returned[b] :
                   rb.total_found <= ra.total_found

\* two thresholds of which the higher one found strictly fewer, the lower one
\* called after the higher one and both answered once more from the cache
C11_Witness ==
    /\ resp.op = "find_matches"
    /\ resp.result.from_cache
    /\ \E b \in DOMAIN returned :
           /\ b[2] > resp.min_compatibility
           /\ \E rb \in returned[b] : rb.from_cache /\ rb.total_found < resp.result.total_found
           /\ computed[b].first

\* position of the profile of a match in the loaded profile list
LoadedPosition(match) ==
    CHOOSE i \in 1..Len(profiles) : profiles[i]["id"] = match.profile["id"]

\* C12: the matches returned by find_matches are in descending order of their
\* reported score, and matches with equal scores are in the order of their
\* profiles in the loaded profile list
C12_RankedDescendingAndStable ==
    (resp.op = "find_matches") =>
        LET matches == resp.result.matches
        IN  \A i \in 1..Len(matches) : \A j \in 1..Len(matches) :
                i < j =>
                    /\ matches[i].compatibility_score >= matches[j].compatibility_score
                    /\ (matches[i].compatibility_score = matches[j].compatibility_score
                           => LoadedPosition(matches[i]) < LoadedPosition(matches[j]))

\* a returned list with two matches of equal score and a third of another score
C12_Witness ==
    /\ resp.op = "find_matches"
    /\ \E i \in 1..Len(resp.result.matches) : \E j \in 1..Len(resp.result.matches) :
           /\ i < j
           /\ resp.result.matches[i].compatibility_score
                  = resp.result.matches[j].compatibility_score
    /\ \E i \in 1..Len(resp.result.matches) : \E j \in 1..Len(resp.result.matches) :
           resp.result.matches[i].compatibility_score
               > resp.result.matches[j].compatibility_score

\* the survivors of the last call that are not among its returned matches
CutSurvivors ==
    {j \in 1..Len(Survivors) :
        \A i \in 1..Len(resp.result.matches) :
            resp.result.matches[i].profile # CleanProfile(Survivors[j])}

\* the score find_matches reports for a survivor
ReportedScore(profile) == Round3(TotalScore(DetailedScores(resp.query, profile)))

\* C13: a find_matches call with max_results >= 1 returns at most max_results
\* matches, total_found is their number, they are survivors of the threshold,
\* as many of them as the cap allows, and no survivor that was cut has a
\* reported score above that of a returned match
C13_CapKeepsTheBestSurvivors ==
    (resp.op = "find_matches" /\ resp.max_results >= 1) =>
        /\ Len(resp.result.matches) <= resp.max_results
        /\ resp.result.total_found = Len(resp.result.matches)
        /\ Len(resp.result.matches) = Min2(resp.max_results, Len(Survivors))
        /\ \A i \in 1..Len(resp.result.matches) :
               \E j \in 1..Len(Survivors) :
                   resp.result.matches[i].profile = CleanProfile(Survivors[j])
        /\ \A j \in CutSurvivors : \A i \in 1..Len(resp.result.matches) :
               ReportedScore(Survivors[j]) <= resp.result.matches[i].compatibility_score

\* a call whose cap cut a survivor with a score below that of a returned match
C13_Witness ==
    /\ resp.op = "find_matches"
    /\ Len(resp.result.matches) = resp.max_results
    /\ \E j \in CutSurvivors : \E i \in 1..Len(resp.result.matches) :
           ReportedScore(Survivors[j]) < resp.result.matches[i].compatibility_score

\* what a result dict says about the matching: the ranked matches, each with
\* its profile, overall score, factor scores and explanation, and their number
Outcome(result) == [matches |-> result.matches, total_found |-> result.total_found]

Exposable(profile) == \A k \in DOMAIN profile : ~StartsWithUnderscore(k)

\* C15: no profile handed to a caller has a key that begins with '_': not the
\* profiles of the matches of find_matches, not the profiles listed by
\* GET /profiles, not the profile returned by GET /profiles/<profile_id>
C15_NoDerivedFieldHandedOut ==
    /\ (resp.op \in {"match", "quick_match"} /\ resp.called) =>
           \A i \in 1..Len(resp.result.matches) : Exposable(resp.result.matches[i].profile)
    /\ (resp.op = "profiles") =>
           \A i \in 1..Len(resp.profiles) : Exposable(resp.profiles[i])
    /\ (resp.op = "profile" /\ resp.status = 200) => Exposable(resp.profile)

(***************************************************************************)
(* Properties of the instrument score                                      *)
(***************************************************************************)
\* the instruments of the scored query and of the scored profile
ScoredQueryInstruments == Get(input.query, "instruments", << >>)

ScoredProfileInstruments == Get(profiles[input.profile], "instruments", << >>)

\* a score was returned for a query and a profile that both list instruments,
\* share none of them, and have an instrument group in common
SharedGroupOnly ==
    /\ resp.op = "score"
    /\ Len(ScoredQueryInstruments) > 0
    /\ Len(ScoredProfileInstruments) > 0
    /\ LowerSet(ScoredQueryInstruments) \cap LowerSet(ScoredProfileInstruments) = {}
    /\ GroupsOf(ScoredQueryInstruments) \cap GroupsOf(ScoredProfileInstruments) # {}

\* a group of the query and a group of the profile form a complementary pair
SomeComplementaryPair ==
    \E q \in GroupsOf(ScoredQueryInstruments) : \E p \in GroupsOf(ScoredProfileInstruments) :
        << q, p >> \in Range(complementary_pairs) \/ << p, q >> \in Range(complementary_pairs)

\* C16 as stated: with no instrument in common and an instrument group in
\* common, the instrument score is exactly 0.7
C16_SharedGroupScoresSeventy ==
    SharedGroupOnly => resp.detailed_scores.instruments = 70

\* C16: with no instrument in common and an instrument group in common, the
\* instrument score is 0.8 when some group of the query and some group of the
\* profile form a complementary pair, and 0.7 otherwise
C16_SharedGroupScoresSeventyUnlessComplementary ==
    SharedGroupOnly =>
        resp.detailed_scores.instruments = IF SomeComplementaryPair THEN 80 ELSE 70

\* a shared group without a complementary pair, scored 0.7
C16_Witness ==
    /\ SharedGroupOnly
    /\ ~SomeComplementaryPair
    /\ resp.detailed_scores.instruments = 70

(***************************************************************************)
(* Properties of the location resolution and the proximity score           *)
(***************************************************************************)
\* the key under which borough_mapping registers the zones of a borough name
BoroughMappingKey(borough) ==
    IF borough = "staten island" THEN "staten_island" ELSE borough

\* the first zone in the borough_mapping list of a borough
FirstRegisteredZone(borough) == borough_mapping[BoroughMappingKey(borough)][1]

\* the representative zone of a resolution of type neighborhood or borough
RepresentativeZone(parsed) ==
    IF parsed.type = "neighborhood" THEN parsed.data.zone
    ELSE FirstRegisteredZone(parsed.key)

\* a score was returned for two texts that resolved to different keys, one of
\* them at least to a borough
BoroughSideScored ==
    /\ resp.op = "proximity"
    /\ resp.parsed1.type # "none"
    /\ resp.parsed2.type # "none"
    /\ resp.parsed1.key # resp.parsed2.key
    /\ (resp.parsed1.type = "borough" \/ resp.parsed2.type = "borough")

\* C17: when a side of get_proximity_score resolves to a borough and the keys
\* differ, the score is the proximity_matrix entry between the first zone of
\* that borough's borough_mapping list and the representative zone of the other
\* side, for each of the five boroughs; the default 20 is returned only when a
\* side resolved to the city
C17_BoroughUsesFirstRegisteredZone ==
    BoroughSideScored =>
        IF resp.parsed1.type = "city" \/ resp.parsed2.type = "city"
        THEN resp.score = 20
        ELSE resp.score = proximity_matrix[RepresentativeZone(resp.parsed1)]
                                          [RepresentativeZone(resp.parsed2)]

\* the text is one of the five borough names, whatever its case and the blanks
\* around it
BareBoroughName(text) == Strip(Lower(text)) \in Range(BoroughNames)

\* C18: a bare borough name resolves to type borough, with that borough as
\* its key, not to a neighborhood
C18_BoroughNameResolvesToBorough ==
    (resp.op = "proximity") =>
        /\ BareBoroughName(resp.location1) =>
               /\ resp.parsed1.type = "borough"
               /\ resp.parsed1.key = Strip(Lower(resp.location1))
        /\ BareBoroughName(resp.location2) =>
               /\ resp.parsed2.type = "borough"
               /\ resp.parsed2.key = Strip(Lower(resp.location2))

\* the first text is a borough name and the second the name of a registered
\* neighborhood of that borough
BoroughAndItsNeighborhood ==
    /\ resp.op = "proximity"
    /\ resp.location1 \in Range(BoroughNames)
    /\ \E n \in 1..Len(neighborhoods) :
           /\ neighborhoods[n].name = resp.location2
           /\ neighborhoods[n].borough = Title(resp.location1)

\* C19: the proximity score of a borough name and the name of a registered
\* neighborhood of that borough lies in [60, 80]
C19_BoroughToItsNeighborhoodInRange ==
    BoroughAndItsNeighborhood => resp.score \in 60..80

\* the zones referenced by a registered neighborhood or by borough_mapping
RegisteredZones ==
    {neighborhoods[n].zone : n \in 1..Len(neighborhoods)}
        \cup UNION {Range(borough_mapping[b]) : b \in DOMAIN borough_mapping}

\* the last call of get_proximity_score reached the matrix lookup
LookedUpInMatrix ==
    /\ resp.op = "proximity"
    /\ resp.parsed1.type # "none"
    /\ resp.parsed2.type # "none"
    /\ resp.parsed1.key # resp.parsed2.key
    /\ ZoneOfParsed(resp.parsed1) # ""
    /\ ZoneOfParsed(resp.parsed2) # ""

\* C20: proximity_matrix has an entry for every pair of registered zones, an
\* integer in 0..100, and 100 for a zone and itself; so no lookup that
\* get_proximity_score makes is missing
C20_ProximityMatrixIsTotal ==
    /\ \A z1 \in RegisteredZones : \A z2 \in RegisteredZones :
           /\ z1 \in DOMAIN proximity_matrix
           /\ z2 \in DOMAIN proximity_matrix[z1]
           /\ proximity_matrix[z1][z2] \in 0..100
    /\ \A z \in RegisteredZones : proximity_matrix[z][z] = 100
    /\ LookedUpInMatrix =>
           /\ ZoneOfParsed(resp.parsed1) \in DOMAIN proximity_matrix
           /\ ZoneOfParsed(resp.parsed2) \in DOMAIN proximity_matrix[ZoneOfParsed(resp.parsed1)]
           /\ resp.score = proximity_matrix[ZoneOfParsed(resp.parsed1)][ZoneOfParsed(resp.parsed2)]

\* a call that looked up the entry of two different zones, one of them the
\* first zone of a borough
C20_Witness ==
    /\ LookedUpInMatrix
    /\ resp.parsed1.type = "borough"
    /\ ZoneOfParsed(resp.parsed1) # ZoneOfParsed(resp.parsed2)
    /\ resp.score < 100

\* the text is empty once it is lowercased and trimmed
BlankText(text) == Strip(Lower(text)) = ""

\* C30: a text that is empty after lowercasing and trimming resolves to
\* nothing, and get_proximity_score returns 0 when either argument is such a text
C30_BlankTextResolvesToNothing ==
    (resp.op = "proximity") =>
        /\ BlankText(resp.location1) => resp.parsed1 = NoLocation
        /\ BlankText(resp.location2) => resp.parsed2 = NoLocation
        /\ (BlankText(resp.location1) \/ BlankText(resp.location2)) => resp.score = 0

\* C26: get_proximity_score gives the same score for two texts in either
\* order, whatever they resolve to, and proximity_matrix has the same entry for
\* two zones in either order
C26_ProximityIsSymmetric ==
    /\ \A z1 \in DOMAIN proximity_matrix : \A z2 \in DOMAIN proximity_matrix[z1] :
           /\ z2 \in DOMAIN proximity_matrix
           /\ z1 \in DOMAIN proximity_matrix[z2]
           /\ proximity_matrix[z1][z2] = proximity_matrix[z2][z1]
    /\ (resp.op = "proximity") =>
           resp.score = get_proximity_score(resp.location2, resp.location1)

\* a score between a text that resolves to nothing and one that resolves to a
\* neighborhood; and a score looked up for two different zones
C26_Witness ==
    /\ resp.op = "proximity"
    /\ resp.parsed1.type = "neighborhood"
    /\ resp.parsed2.type = "none"
    /\ resp.score = 0

(***************************************************************************)
(* Properties of get_nearby_neighborhoods                                  *)
(***************************************************************************)
\* position of a neighborhood in the registration order
RegistrationPosition(key) ==
    CHOOSE n \in 1..Len(neighborhoods) : neighborhoods[n].key = key

\* the registered neighborhoods whose score to the text of the last call
\* reaches its minimum score
NearEnough ==
    {n \in 1..Len(neighborhoods) :
        get_proximity_score(resp.location, neighborhoods[n].name) >= resp.min_score}

\* C22: for a text that resolves, get_nearby_neighborhoods returns exactly
\* the registered neighborhoods whose proximity score to the text is at least
\* min_score, each once and with that score, in descending order of the
\* score and, for equal scores, in registration order; for a text that does not
\* resolve it returns the empty list
C22_NearbyIsFilteredAndRanked ==
    (resp.op = "nearby") =>
        IF parse_location(resp.location).type = "none" THEN resp.nearby = << >>
        ELSE /\ {resp.nearby[i].key : i \in 1..Len(resp.nearby)}
                    = {neighborhoods[n].key : n \in NearEnough}
             /\ Len(resp.nearby) = Cardinality(NearEnough)
             /\ \A i \in 1..Len(resp.nearby) :
                    /\ resp.nearby[i].neighborhood
                           = neighborhoods[RegistrationPosition(resp.nearby[i].key)].name
                    /\ resp.nearby[i].proximity_score
                           = get_proximity_score(resp.location, resp.nearby[i].neighborhood)
             /\ \A i \in 1..Len(resp.nearby) : \A j \in 1..Len(resp.nearby) :
                    i < j =>
                        /\ resp.nearby[i].proximity_score >= resp.nearby[j].proximity_score
                        /\ (resp.nearby[i].proximity_score = resp.nearby[j].proximity_score
                               => RegistrationPosition(resp.nearby[i].key)
                                      < RegistrationPosition(resp.nearby[j].key))

\* a list that leaves out some neighborhood and holds two entries of equal
\* score and two of different scores
C22_Witness ==
    /\ resp.op = "nearby"
    /\ Len(resp.nearby) >= 3
    /\ Len(resp.nearby) < Len(neighborhoods)
    /\ resp.nearby[1].proximity_score > resp.nearby[Len(resp.nearby)].proximity_score
    /\ resp.nearby[1].proximity_score = resp.nearby[2].proximity_score

\* C29: the display name of a registered neighborhood resolves to that
\* neighborhood, its proximity score to itself is 100, and with a minimum score
\* of at most 100 get_nearby_neighborhoods of the name lists the neighborhood
\* with proximity score 100
C29_NameResolvesToItsNeighborhood ==
    (resp.op = "nearby" /\ resp.location \in NeighborhoodNames) =>
        /\ parse_location(resp.location).type = "neighborhood"
        /\ parse_location(resp.location).data.name = resp.location
        /\ get_proximity_score(resp.location, resp.location) = 100
        /\ (resp.min_score <= 100) =>
               \E i \in 1..Len(resp.nearby) :
                   /\ resp.nearby[i].neighborhood = resp.location
                   /\ resp.nearby[i].proximity_score = 100

(***************************************************************************)
(* Properties of the construction of NYCLocationIntelligence               *)
(***************************************************************************)
\* the matrix has a row for every registered zone and in it a column for
\* every registered zone
TablesConsistent(matrix) ==
    \A z1 \in RegisteredZones : \A z2 \in RegisteredZones :
        z1 \in DOMAIN matrix /\ z2 \in DOMAIN matrix[z1]

ExplainedFactors ==
    << << "instruments", 80 >>, << "genres", 70 >>, << "location", 80 >>,
       << "availability", 80 >>, << "influences", 70 >>, << "collaboration_intent", 80 >> >>

\* the factors of a match that reach their threshold, in that order
QualifyingFactors(match) ==
    PickAll([f \in 1..Len(ExplainedFactors) |-> ExplainedFactors[f][1]],
            KeptPositions([f \in 1..Len(ExplainedFactors) |->
                              match.detailed_scores[ExplainedFactors[f][1]]
                                  >= ExplainedFactors[f][2]]))

\* the text with which a clause begins
BeginsWith(text, prefix) ==
    Len(text) >= Len(prefix) /\ SubSeq(text, 1, Len(prefix)) = prefix

\* the factor a clause of an explanation speaks about ("none" for the generic clause)
ClauseFactor(clause) ==
    IF clause.text \in {"Plays same instruments: ", "Instruments complement each other well"}
    THEN "instruments"
    ELSE IF clause.text = "Strong musical genre compatibility" THEN "genres"
    ELSE IF BeginsWith(clause.text, "Same location: ") \/ clause.text = "Close geographic proximity"
    THEN "location"
    ELSE IF clause.text = "Compatible schedules and availability" THEN "availability"
    ELSE IF clause.text \in {"Shared influences: ", "Similar musical taste and influences"}
    THEN "influences"
    ELSE IF clause.text = "Aligned collaboration goals" THEN "collaboration_intent"
    ELSE "none"

\* C23: the explanation of a match has one clause for each of the first three
\* factors that reach their threshold, taken in the order instruments >= 0.8,
\* genres >= 0.7, location >= 0.8, availability >= 0.8, influences >= 0.7,
\* collaboration_intent >= 0.8, and no other clause; it has between one and
\* three clauses, and it is the generic clause alone exactly when no factor
\* reaches its threshold
C23_ExplanationFollowsThresholds ==
    (resp.op = "match_dict") =>
        LET explanation == resp.match.explanation
            qualifying == QualifyingFactors(resp.match)
        IN  /\ Len(explanation) \in 1..3
            /\ IF Len(qualifying) = 0
               THEN explanation
                        = << Clause("Good overall compatibility across multiple factors", {}) >>
               ELSE /\ Len(explanation) = Min2(3, Len(qualifying))
                    /\ \A i \in 1..Len(explanation) :
                           ClauseFactor(explanation[i]) = qualifying[i]

\* a match of which more than three factors reach their threshold
C23_Witness ==
    /\ resp.op = "match_dict"
    /\ Len(QualifyingFactors(resp.match)) > 3
    /\ Len(resp.match.explanation) = 3


\* the query and the profile of the scenario: a singer in Brooklyn who names
\* Amy Winehouse, and the profile of one in Williamsburg who names her too
ScenarioScored ==
    /\ resp.op = "match_dict"
    /\ resp.query = [instruments |-> << "vocals" >>, location |-> "brooklyn",
                     musical_influences |-> << "Amy Winehouse" >>]
    /\ CleanProfile(profiles[input.profile])
           = [id |-> "p4", instruments |-> << "vocals" >>,
              location |-> "Williamsburg, Brooklyn",
              musical_influences |-> << "Amy Winehouse" >>]

\* the factor scores of the scenario: instruments 1.0, influences >= 0.9,
\* location >= 0.85
ScenarioFactors ==
    /\ resp.match.detailed_scores.instruments = 100
    /\ resp.match.detailed_scores.influences >= 90
    /\ resp.match.detailed_scores.location >= 85

PlaysInstrument(profile, instrument) ==
    LET instruments == Get(profile, "instruments", << >>)
    IN  \E i \in 1..Len(instruments) : Contains(Lower(instruments[i]), Lower(instrument))

\* C25: every profile returned by GET /profiles?instrument=X&limit=L has an
\* instrument whose name contains X, whatever its case
C25_ListedProfilesPlayTheInstrument ==
    (resp.op = "profiles" /\ "instrument" \in DOMAIN resp.filters_applied) =>
        \A i \in 1..Len(resp.profiles) :
            PlaysInstrument(resp.profiles[i], resp.filters_applied["instrument"])

(***************************************************************************)
(* Properties of the cache under repeated query texts                      *)
(***************************************************************************)
\* an earlier call that was computed for the same query text, threshold and
\* cap as the call just answered, and whose result was stored
StoredForTheSameText(triple) ==
    /\ "original_query" \in DOMAIN triple[1]
    /\ triple[1]["original_query"] = resp.query["original_query"]
    /\ triple[2] = resp.min_compatibility
    /\ triple[3] = resp.max_results
    /\ triple # CallTriple(resp.query, resp.min_compatibility, resp.max_results)
    /\ computed[triple].room

\* C28: a request with the query text, threshold and cap of an earlier request
\* whose result was stored has the fingerprint of that request and is served
\* from the cache
C28_SameTextIsServedFromCache ==
    (/\ resp.op \in {"match", "quick_match"}
     /\ resp.called
     /\ "original_query" \in DOMAIN resp.query) =>
        \A triple \in DOMAIN computed :
            StoredForTheSameText(triple) =>
                /\ CacheKey(triple[1], triple[2], triple[3])
                       = CacheKey(resp.query, resp.min_compatibility, resp.max_results)
                /\ resp.result.from_cache

(***************************************************************************)
(* Properties of concurrent GET /profiles requests                         *)
(***************************************************************************)
\* the scores a response reports, in the order of its list
ReportedListScores(r) ==
    [i \in 1..Len(r.profiles) |-> Get(r.profiles[i], "compatibility_score", 0 - 1)]

\* C27: a response of GET /profiles reports for every profile the score
\* computed from the filters of its own request, and lists the best of all
\* profiles by those scores, highest first
C27_ResponseScoredByItsOwnFilters ==
    (resp.op = "profiles") =>
        /\ \A i \in 1..Len(resp.profiles) :
               Get(resp.profiles[i], "compatibility_score", 0 - 1)
                   = ProfileListScore(resp.filters_applied, resp.profiles[i])
        /\ \A i, j \in 1..Len(resp.profiles) :
               i < j => ReportedListScores(resp)[i] >= ReportedListScores(resp)[j]
====
